---- MODULE Spec2Model ----
(***************************************************************************)
(* A model of lestrrat-go/sfv: the RFC 9651 structured-field parser        *)
(* (sfv.go), the value model (Parameters, Item, InnerList, List,           *)
(* Dictionary), the canonical encoder (the MarshalSFV methods, Marshal)    *)
(* and the Encoder with its parameter spacing.                             *)
(*                                                                         *)
(* Bytes are naturals 0..255 and a byte buffer is a sequence of bytes.     *)
(* The cursor index idx is 0-based as in the source, so data[idx] of the   *)
(* source is data[idx + 1] here.                                           *)
(*                                                                         *)
(* A bare item is [type, neg, val]:                                        *)
(*   Integer, Date    val = the decimal digits of |v| (ASCII, no leading   *)
(*                    zeros), neg = (v < 0); int64 does not fit the        *)
(*                    32-bit integers of TLC, so values are kept           *)
(*                    as digit strings and compared as numbers             *)
(*   Decimal          val = |v| written with exactly three fraction        *)
(*                    digits (what FormatFloat(v, 'f', 3, 64) gives),      *)
(*                    neg = the sign bit of the float64                    *)
(*   String, Token, DisplayString, ByteSequence                            *)
(*                    val = the bytes of the value                         *)
(*   Boolean          val = <<'1'>> or <<'0'>>                             *)
(***************************************************************************)
EXTENDS Integers, Sequences, FiniteSets, TLC

VARIABLES
    pc,     \* where the session stands
    data,   \* the byte buffer handed to the parser
    mode,   \* the parse mode of the last parse call
    res,    \* (value, error) returned by the first parse call
    out,    \* (bytes, error) returned by the first Marshal call
    res2,   \* (value, error) of parsing out's bytes again
    out2,   \* (bytes, error) of marshaling res2's value
    tree,   \* a value built through the constructors: the value whose
            \* encoding is the buffer, or the Item driven through its API
    host,   \* a host integer handed to Marshal
    p,      \* a *Parameters driven through its API
    d,      \* a *Dictionary driven through its API
    ret,    \* the error result of the last API call ("nil" or "error")
    hist,   \* the parameters written in the buffer, or the calls made so
            \* far, as records in order
    enc,    \* an *Encoder and the bytes written to its sink so far
    heap,   \* the Parameters objects allocated so far, by address
    refs,   \* the Items the caller holds; each refers to its Parameters by
            \* address
    pctx    \* the parseContext of a session that calls the parser's own
            \* methods: its cursor idx (data is the buffer it reads)

vars == <<pc, data, mode, res, out, res2, out2, tree, host, p, d, ret, hist,
          enc, heap, refs, pctx>>

---------------------------------------------------------------------------
(* Program constants *)

maxIntegerDigits == 15

\* 999999999999999 as its decimal digits
maxSFVInteger == <<57, 57, 57, 57, 57, 57, 57, 57, 57, 57, 57, 57, 57, 57, 57>>

parseModeDefault == 0
parseModeList == 1
parseModeDictionary == 2
parseModeItem == 3

InvalidType == 0
IntegerType == 1
DecimalType == 2
StringType == 3
TokenType == 4
ByteSequenceType == 5
BooleanType == 6
DateType == 7
DisplayStringType == 8

\* The byte constants of package internal/tokens, by the names sfv.go uses.
tokens ==
    [ OpenParen |-> 40, CloseParen |-> 41, Comma |-> 44, Semicolon |-> 59,
      Equals |-> 61, Asterisk |-> 42, Underscore |-> 95, Dash |-> 45,
      Period |-> 46, DoubleQuote |-> 34, Backslash |-> 92, Colon |-> 58,
      QuestionMark |-> 63, AtMark |-> 64, Percent |-> 37, One |-> 49,
      Zero |-> 48, Ampersand |-> 38, Backtick |-> 96, Caret |-> 94,
      Dollar |-> 36, Exclamation |-> 33, Hash |-> 35, Pipe |-> 124,
      Plus |-> 43, SingleQuote |-> 39, Slash |-> 47, Tilde |-> 126 ]

---------------------------------------------------------------------------
(* Byte classes *)

isDigit(c) == c >= 48 /\ c <= 57

isAlpha(c) == (c >= 97 /\ c <= 122) \/ (c >= 65 /\ c <= 90)

isLowerAlpha(c) == c >= 97 /\ c <= 122

\* unicode.IsSpace(rune(b)) for a byte b: the Latin-1 white space
IsSpace(c) == c \in {9, 10, 11, 12, 13, 32, 133, 160}

isHexDigit(c) == isDigit(c) \/ (c >= 97 /\ c <= 102) \/ (c >= 65 /\ c <= 70)

hexVal(c) == IF isDigit(c) THEN c - 48
             ELSE IF c >= 97 THEN c - 87 ELSE c - 55

\* one lowercase hex digit, as fmt's %x writes it
hexDigit(n) == IF n < 10 THEN 48 + n ELSE 87 + n

---------------------------------------------------------------------------
(* The value model *)

BareItem(t, n, v) == [type |-> t, neg |-> n, val |-> v]

True == BareItem(BooleanType, FALSE, <<tokens.One>>)
False == BareItem(BooleanType, FALSE, <<tokens.Zero>>)

BareString(s) == BareItem(StringType, FALSE, s)
BareToken(s) == BareItem(TokenType, FALSE, s)
BareDisplayString(s) == BareItem(DisplayStringType, FALSE, s)
BareByteSequence(b) == BareItem(ByteSequenceType, FALSE, b)
BareInteger(n, digits) == BareItem(IntegerType, n, digits)
BareDecimal(n, digits) == BareItem(DecimalType, n, digits)
BareDate(n, digits) == BareItem(DateType, n, digits)

\* the nil interface value / the zero value of a result
Nil == [kind |-> "nil"]

\* a nil *Parameters
NilParameters == [nil |-> TRUE, keys |-> <<>>, Values |-> <<>>]

\* &Parameters{keys: keys, Values: values}
Parameters(keys, values) == [nil |-> FALSE, keys |-> keys, Values |-> values]

NewParameters == Parameters(<<>>, <<>>)

\* Go's m[k] = v on a map
MapSet(m, k, v) == [x \in (DOMAIN m) \cup {k} |-> IF x = k THEN v ELSE m[x]]

\* &fullItem{bare: b, params: params}
FullItem(b, params) ==
    [kind |-> "Item", bare |-> b, values |-> <<>>, params |-> params]

\* a BareItem held where a member is expected (an interface value whose
\* dynamic type implements BareItem and not Item)
BareMember(b) ==
    [kind |-> "BareItem", bare |-> b, values |-> <<>>, params |-> NilParameters]

ToItem(b) == FullItem(b, NewParameters)

With(item, params) == FullItem(item.bare, params)

InnerList(values, params) ==
    [kind |-> "InnerList", bare |-> Nil, values |-> values, params |-> params]

List(values) == [kind |-> "List", values |-> values]

Dictionary(keys, values) == [kind |-> "Dictionary", keys |-> keys, values |-> values]

NewDictionary == Dictionary(<<>>, <<>>)

ParametersLen(q) ==
    IF q.nil THEN 0
    ELSE IF Len(q.keys) = 0 /\ Cardinality(DOMAIN q.Values) > 0
         THEN Cardinality(DOMAIN q.Values)
         ELSE Len(q.keys)

---------------------------------------------------------------------------
(* The cursor (parseContext) *)

eof(buf, idx) == idx >= Len(buf)

current(buf, idx) == IF eof(buf, idx) THEN 0 ELSE buf[idx + 1]

\* an advance that does not look for the end of the input
advanceUnchecked(buf, idx) == idx + 1

advance(buf, idx) == IF eof(buf, idx) THEN idx ELSE idx + 1

RECURSIVE stripWhitespace(_, _)
stripWhitespace(buf, idx) ==
    IF ~eof(buf, idx) /\ IsSpace(buf[idx + 1])
    THEN stripWhitespace(buf, advance(buf, idx))
    ELSE idx

\* v := e followed by the statements that use v: the value of e is computed
\* once, when the statement is reached, and handed on
Let(e, Rest(_)) == CHOOSE y \in { Rest(x) : x \in {e} } : TRUE

\* what a sub-parser returns: an error, or a value and the cursor after it
Err(idx) == [err |-> TRUE, v |-> Nil, idx |-> idx]
Ok(v, idx) == [err |-> FALSE, v |-> v, idx |-> idx]

---------------------------------------------------------------------------
(* Keys *)

isKeyChar(c) ==
    isLowerAlpha(c) \/ isDigit(c) \/ c = tokens.Underscore \/ c = tokens.Dash
        \/ c = tokens.Period \/ c = tokens.Asterisk

RECURSIVE parseKeyLoop(_, _, _)
parseKeyLoop(buf, idx, sb) ==
    IF eof(buf, idx) THEN [sb |-> sb, idx |-> idx]
    ELSE LET c == current(buf, idx) IN
         IF ~isKeyChar(c) THEN [sb |-> sb, idx |-> idx]
         ELSE parseKeyLoop(buf, advance(buf, idx), Append(sb, c))

parseKey(buf, idx) ==
    IF eof(buf, idx) THEN Err(idx)
    ELSE IF ~isLowerAlpha(current(buf, idx)) /\ current(buf, idx) # tokens.Asterisk
         THEN Err(idx)
    ELSE Let(parseKeyLoop(buf, idx, <<>>), LAMBDA r :
         IF r.sb = <<>> THEN Err(r.idx) ELSE Ok(r.sb, r.idx))

---------------------------------------------------------------------------
(* Numbers *)

\* the digits of a non-negative number without its leading zeros
RECURSIVE StripZeros(_)
StripZeros(s) ==
    IF Len(s) > 1 /\ s[1] = 48 THEN StripZeros(Tail(s)) ELSE s

IndexByte(s, c) == CHOOSE i \in 1..Len(s) : s[i] = c /\ \A j \in 1..(i - 1) : s[j] # c

\* a > b for two digit strings without leading zeros
RECURSIVE LexGreater(_, _)
LexGreater(a, b) ==
    IF a = <<>> THEN FALSE
    ELSE IF a[1] # b[1] THEN a[1] > b[1]
    ELSE LexGreater(Tail(a), Tail(b))

DigitsGreater(a, b) ==
    Len(a) > Len(b) \/ (Len(a) = Len(b) /\ LexGreater(a, b))

\* strconv.ParseFloat of "int.frac" with at most 12 + 3 digits, read back
\* with three fraction digits: the float64 holds every such literal exactly
\* to that precision
ParseFloat3(s) ==
    LET i == IndexByte(s, tokens.Period)
        ip == StripZeros(SubSeq(s, 1, i - 1))
        fr == SubSeq(s, i + 1, Len(s))
        pad == [k \in 1..(3 - Len(fr)) |-> 48]
    IN ip \o <<tokens.Period>> \o fr \o pad

\* a loop that lets 13 digits stand before the '.'
RECURSIVE parseDecimalLoopWide(_, _, _, _)
parseDecimalLoopWide(buf, idx, sb, decimal) ==
    LET done == [err |-> FALSE, sb |-> sb, decimal |-> decimal, idx |-> idx]
        fail == [err |-> TRUE, sb |-> sb, decimal |-> decimal, idx |-> idx]
    IN
    IF eof(buf, idx) THEN done
    ELSE LET c == current(buf, idx) IN
         IF Len(sb) = 0 /\ ~isDigit(c) THEN fail
         ELSE IF c = tokens.Period
              THEN IF decimal THEN done
                   ELSE IF Len(sb) > 13 THEN fail
                   ELSE parseDecimalLoopWide(buf, advance(buf, idx), Append(sb, c), TRUE)
         ELSE IF ~isDigit(c) THEN done
         ELSE parseDecimalLoopWide(buf, advance(buf, idx), Append(sb, c), decimal)

RECURSIVE parseDecimalLoop(_, _, _, _)
parseDecimalLoop(buf, idx, sb, decimal) ==
    LET done == [err |-> FALSE, sb |-> sb, decimal |-> decimal, idx |-> idx]
        fail == [err |-> TRUE, sb |-> sb, decimal |-> decimal, idx |-> idx]
    IN
    IF eof(buf, idx) THEN done
    ELSE LET c == current(buf, idx) IN
         IF Len(sb) = 0 /\ ~isDigit(c) THEN fail
         ELSE IF c = tokens.Period
              THEN IF decimal THEN done
                   ELSE IF Len(sb) > 12 THEN fail
                   ELSE parseDecimalLoop(buf, advance(buf, idx), Append(sb, c), TRUE)
         ELSE IF ~isDigit(c) THEN done
         ELSE parseDecimalLoop(buf, advance(buf, idx), Append(sb, c), decimal)

parseDecimal(buf, idx0) ==
    Let(current(buf, idx0) = tokens.Dash, LAMBDA minus :
    Let(IF minus THEN advance(buf, idx0) ELSE idx0, LAMBDA idx :
    IF eof(buf, idx) THEN Err(idx)
    ELSE Let(parseDecimalLoop(buf, idx, <<>>, FALSE), LAMBDA r :
         IF r.err THEN Err(r.idx)
         ELSE IF r.decimal
              THEN IF Len(r.sb) > 16 THEN Err(r.idx)
                   ELSE IF r.sb[Len(r.sb)] = tokens.Period THEN Err(r.idx)
                   ELSE IF Len(r.sb) - (IndexByte(r.sb, tokens.Period) - 1) > 4
                        THEN Err(r.idx)
                   ELSE Ok(BareDecimal(minus, ParseFloat3(r.sb)), r.idx)
         ELSE IF Len(r.sb) > maxIntegerDigits THEN Err(r.idx)
         ELSE Let(StripZeros(r.sb), LAMBDA v :
              Ok(BareInteger(minus /\ v # <<48>>, v), r.idx)))))

---------------------------------------------------------------------------
(* Strings, tokens, booleans, dates *)

\* a loop that takes any byte after a backslash
RECURSIVE parseStringLoopAnyEscape(_, _, _)
parseStringLoopAnyEscape(buf, idx, sb) ==
    IF eof(buf, idx) THEN Err(idx)
    ELSE LET c == current(buf, idx)
             i1 == advance(buf, idx)
         IN
         IF c = tokens.Backslash
         THEN IF eof(buf, i1) THEN Err(i1)
              ELSE parseStringLoopAnyEscape(buf, advance(buf, i1),
                                            Append(sb, current(buf, i1)))
         ELSE IF c = tokens.DoubleQuote THEN Ok(BareString(sb), i1)
         ELSE IF c <= 31 \/ c >= 127 THEN Err(i1)
         ELSE parseStringLoopAnyEscape(buf, i1, Append(sb, c))

RECURSIVE parseStringLoop(_, _, _)
parseStringLoop(buf, idx, sb) ==
    IF eof(buf, idx) THEN Err(idx)
    ELSE LET c == current(buf, idx)
             i1 == advance(buf, idx)
         IN
         IF c = tokens.Backslash
         THEN IF eof(buf, i1) THEN Err(i1)
              ELSE LET next == current(buf, i1) IN
                   IF next # tokens.DoubleQuote /\ next # tokens.Backslash
                   THEN Err(i1)
                   ELSE parseStringLoop(buf, advance(buf, i1), Append(sb, next))
         ELSE IF c = tokens.DoubleQuote THEN Ok(BareString(sb), i1)
         ELSE IF c <= 31 \/ c >= 127 THEN Err(i1)
         ELSE parseStringLoop(buf, i1, Append(sb, c))

parseString(buf, idx) ==
    IF current(buf, idx) # tokens.DoubleQuote THEN Err(idx)
    ELSE parseStringLoop(buf, advance(buf, idx), <<>>)

isTokenChar(c) ==
    isAlpha(c) \/ isDigit(c)
        \/ c \in { tokens.Ampersand, tokens.Asterisk, tokens.Backtick, tokens.Caret,
                   tokens.Colon, tokens.Dash, tokens.Dollar, tokens.Exclamation,
                   tokens.Hash, tokens.Percent, tokens.Period, tokens.Pipe,
                   tokens.Plus, tokens.SingleQuote, tokens.Slash, tokens.Tilde,
                   tokens.Underscore }

RECURSIVE parseTokenLoop(_, _, _)
parseTokenLoop(buf, idx, sb) ==
    IF eof(buf, idx) THEN [sb |-> sb, idx |-> idx]
    ELSE LET c == current(buf, idx) IN
         IF ~isTokenChar(c) THEN [sb |-> sb, idx |-> idx]
         ELSE parseTokenLoop(buf, advance(buf, idx), Append(sb, c))

parseToken(buf, idx) ==
    IF ~isAlpha(current(buf, idx)) /\ current(buf, idx) # tokens.Asterisk
    THEN Err(idx)
    ELSE Let(parseTokenLoop(buf, idx, <<>>), LAMBDA r :
         IF Len(r.sb) = 0 THEN Err(r.idx) ELSE Ok(BareToken(r.sb), r.idx))

parseBoolean(buf, idx) ==
    IF current(buf, idx) # tokens.QuestionMark THEN Err(idx)
    ELSE LET i1 == advance(buf, idx) IN
         IF eof(buf, i1) THEN Err(i1)
         ELSE LET c == current(buf, i1)
                  i2 == advance(buf, i1)
              IN IF c = tokens.One THEN Ok(True, i2)
                 ELSE IF c = tokens.Zero THEN Ok(False, i2)
                 ELSE Err(i2)

parseDate(buf, idx) ==
    IF current(buf, idx) # tokens.AtMark THEN Err(idx)
    ELSE Let(parseDecimal(buf, advance(buf, idx)), LAMBDA r :
         IF r.err THEN Err(r.idx)
         ELSE IF r.v.type # IntegerType THEN Err(r.idx)
         ELSE Ok(BareDate(r.v.neg, r.v.val), r.idx))

---------------------------------------------------------------------------
(* Byte sequences: encoding/base64, StdEncoding *)

isBase64Char(c) == isAlpha(c) \/ isDigit(c) \/ c = tokens.Plus \/ c = tokens.Slash

\* the 6-bit value of a character of the standard alphabet
b64Val(c) ==
    IF c >= 65 /\ c <= 90 THEN c - 65
    ELSE IF c >= 97 /\ c <= 122 THEN c - 71
    ELSE IF isDigit(c) THEN c + 4
    ELSE IF c = tokens.Plus THEN 62 ELSE 63

\* the character of a 6-bit value
b64Char(n) ==
    IF n < 26 THEN n + 65
    ELSE IF n < 52 THEN n + 71
    ELSE IF n < 62 THEN n - 4
    ELSE IF n = 62 THEN tokens.Plus ELSE tokens.Slash

\* DecodeString: quanta of four characters; "=" only as the padding of the
\* last quantum; the bits a padded quantum leaves over are dropped
RECURSIVE base64Decode(_)
base64Decode(s) ==
    IF Len(s) = 0 THEN [err |-> FALSE, bytes |-> <<>>]
    ELSE IF Len(s) < 4 THEN [err |-> TRUE, bytes |-> <<>>]
    ELSE IF ~isBase64Char(s[1]) \/ ~isBase64Char(s[2]) THEN [err |-> TRUE, bytes |-> <<>>]
    ELSE LET v1 == b64Val(s[1])
             v2 == b64Val(s[2])
             b1 == v1 * 4 + (v2 \div 16)
         IN
         IF s[3] = tokens.Equals
         THEN IF s[4] = tokens.Equals /\ Len(s) = 4
              THEN [err |-> FALSE, bytes |-> <<b1>>]
              ELSE [err |-> TRUE, bytes |-> <<>>]
         ELSE IF ~isBase64Char(s[3]) THEN [err |-> TRUE, bytes |-> <<>>]
         ELSE LET v3 == b64Val(s[3])
                  b2 == (v2 % 16) * 16 + (v3 \div 4)
              IN
              IF s[4] = tokens.Equals
              THEN IF Len(s) = 4
                   THEN [err |-> FALSE, bytes |-> <<b1, b2>>]
                   ELSE [err |-> TRUE, bytes |-> <<>>]
              ELSE IF ~isBase64Char(s[4]) THEN [err |-> TRUE, bytes |-> <<>>]
              ELSE LET b3 == (v3 % 4) * 64 + b64Val(s[4])
                       rest == base64Decode(SubSeq(s, 5, Len(s)))
                   IN IF rest.err THEN rest
                      ELSE [err |-> FALSE, bytes |-> <<b1, b2, b3>> \o rest.bytes]

\* EncodeToString
RECURSIVE base64Encode(_)
base64Encode(b) ==
    IF Len(b) = 0 THEN <<>>
    ELSE IF Len(b) = 1
         THEN <<b64Char(b[1] \div 4), b64Char((b[1] % 4) * 16),
                tokens.Equals, tokens.Equals>>
    ELSE IF Len(b) = 2
         THEN <<b64Char(b[1] \div 4), b64Char((b[1] % 4) * 16 + (b[2] \div 16)),
                b64Char((b[2] % 16) * 4), tokens.Equals>>
    ELSE <<b64Char(b[1] \div 4), b64Char((b[1] % 4) * 16 + (b[2] \div 16)),
           b64Char((b[2] % 16) * 4 + (b[3] \div 64)), b64Char(b[3] % 64)>>
             \o base64Encode(SubSeq(b, 4, Len(b)))

RECURSIVE parseByteSequenceLoop(_, _, _)
parseByteSequenceLoop(buf, idx, sb) ==
    IF eof(buf, idx) THEN Err(idx)
    ELSE Let(current(buf, idx), LAMBDA c :
         IF c = tokens.Colon
         THEN Let(base64Decode(sb), LAMBDA dec :
              IF dec.err THEN Err(advance(buf, idx))
              ELSE Ok(BareByteSequence(dec.bytes), advance(buf, idx)))
         ELSE IF isAlpha(c) \/ isDigit(c) \/ c = tokens.Plus \/ c = tokens.Slash
                    \/ c = tokens.Equals
              THEN parseByteSequenceLoop(buf, advance(buf, idx), Append(sb, c))
         ELSE Err(idx))

parseByteSequence(buf, idx) ==
    IF current(buf, idx) # tokens.Colon THEN Err(idx)
    ELSE parseByteSequenceLoop(buf, advance(buf, idx), <<>>)

---------------------------------------------------------------------------
(* Display strings *)

RECURSIVE parseDisplayStringLoop(_, _, _)
parseDisplayStringLoop(buf, idx, byteArray) ==
    IF eof(buf, idx) THEN Err(idx)
    ELSE LET c == current(buf, idx)
             i1 == advance(buf, idx)
         IN
         IF c <= 31 \/ c >= 127 THEN Err(i1)
         ELSE IF c = tokens.Percent
              THEN IF eof(buf, i1) THEN Err(i1)
                   ELSE LET hex1 == current(buf, i1)
                            i2 == advance(buf, i1)
                        IN
                        IF eof(buf, i2) THEN Err(i2)
                        ELSE LET hex2 == current(buf, i2)
                                 i3 == advance(buf, i2)
                             IN
                             IF ~isHexDigit(hex1) \/ ~isHexDigit(hex2) THEN Err(i3)
                             ELSE parseDisplayStringLoop(buf, i3,
                                      Append(byteArray, hexVal(hex1) * 16 + hexVal(hex2)))
         ELSE IF c = tokens.DoubleQuote THEN Ok(BareDisplayString(byteArray), i1)
         ELSE parseDisplayStringLoop(buf, i1, Append(byteArray, c))

parseDisplayString(buf, idx) ==
    IF current(buf, idx) # tokens.Percent THEN Err(idx)
    ELSE LET i1 == advance(buf, idx) IN
         IF eof(buf, i1) \/ current(buf, i1) # tokens.DoubleQuote THEN Err(i1)
         ELSE parseDisplayStringLoop(buf, advance(buf, i1), <<>>)

---------------------------------------------------------------------------
(* Bare items, parameters, items *)

parseBareItem(buf, idx0) ==
    Let(stripWhitespace(buf, idx0), LAMBDA idx :
    Let(current(buf, idx), LAMBDA c :
    IF c = tokens.Dash \/ isDigit(c) THEN parseDecimal(buf, idx)
    ELSE IF c = tokens.DoubleQuote THEN parseString(buf, idx)
    ELSE IF c = tokens.Asterisk \/ isAlpha(c) THEN parseToken(buf, idx)
    ELSE IF c = tokens.Colon THEN parseByteSequence(buf, idx)
    ELSE IF c = tokens.QuestionMark THEN parseBoolean(buf, idx)
    ELSE IF c = tokens.AtMark THEN parseDate(buf, idx)
    ELSE IF c = tokens.Percent THEN parseDisplayString(buf, idx)
    ELSE Err(idx)))

\* a store that keeps the value a key was first given
storeParameterFirst(keys, values, paramKey, paramValue) ==
    [keys |-> IF paramKey \in DOMAIN values THEN keys ELSE Append(keys, paramKey),
     values |-> IF paramKey \in DOMAIN values THEN values
                ELSE MapSet(values, paramKey, paramValue)]

\* steps 7 and 8 of parsing parameters: a key that is new is appended to
\* the key list, and the value goes into the map either way
storeParameter(keys, values, paramKey, paramValue) ==
    [keys |-> IF paramKey \in DOMAIN values THEN keys ELSE Append(keys, paramKey),
     values |-> MapSet(values, paramKey, paramValue)]

RECURSIVE parseParametersLoop(_, _, _, _)
parseParametersLoop(buf, idx, keys, values) ==
    IF eof(buf, idx) \/ current(buf, idx) # tokens.Semicolon
    THEN IF Len(keys) = 0
         THEN Ok(Parameters(<<>>, <<>>), idx)
         ELSE Ok(Parameters(keys, values), idx)
    ELSE Let(parseKey(buf, stripWhitespace(buf, advance(buf, idx))), LAMBDA paramKey :
         IF paramKey.err THEN Err(paramKey.idx)
         ELSE Let(IF ~eof(buf, paramKey.idx)
                      /\ current(buf, paramKey.idx) = tokens.Equals
                  THEN parseBareItem(buf, advance(buf, paramKey.idx))
                  ELSE Ok(True, paramKey.idx), LAMBDA paramValue :
              IF paramValue.err THEN Err(paramValue.idx)
              ELSE Let(storeParameter(keys, values, paramKey.v, paramValue.v),
                       LAMBDA st :
                   parseParametersLoop(buf, paramValue.idx, st.keys, st.values))))

parseParameters(buf, idx) == parseParametersLoop(buf, idx, <<>>, <<>>)

parseItem(buf, idx) ==
    Let(parseBareItem(buf, idx), LAMBDA b :
    IF b.err THEN Err(b.idx)
    ELSE Let(parseParameters(buf, b.idx), LAMBDA params :
         IF params.err THEN Err(params.idx)
         ELSE Ok(With(ToItem(b.v), params.v), params.idx)))

---------------------------------------------------------------------------
(* Structural parsers *)

\* a loop that does not look at the byte after an Item
RECURSIVE parseInnerListLoopLoose(_, _, _)
parseInnerListLoopLoose(buf, idx0, values) ==
    IF eof(buf, idx0) THEN Err(idx0)
    ELSE Let(stripWhitespace(buf, idx0), LAMBDA idx :
         IF current(buf, idx) = tokens.CloseParen
         THEN Let(parseParameters(buf, advance(buf, idx)), LAMBDA params :
              IF params.err THEN Err(params.idx)
              ELSE Ok(InnerList(values,
                                IF ParametersLen(params.v) > 0
                                THEN params.v ELSE NilParameters),
                      params.idx))
         ELSE Let(parseItem(buf, idx), LAMBDA item :
              IF item.err THEN Err(item.idx)
              ELSE parseInnerListLoopLoose(buf, item.idx, Append(values, item.v))))

RECURSIVE parseInnerListLoop(_, _, _)
parseInnerListLoop(buf, idx0, values) ==
    IF eof(buf, idx0) THEN Err(idx0)
    ELSE Let(stripWhitespace(buf, idx0), LAMBDA idx :
         IF current(buf, idx) = tokens.CloseParen
         THEN Let(parseParameters(buf, advance(buf, idx)), LAMBDA params :
              IF params.err THEN Err(params.idx)
              ELSE Ok(InnerList(values,
                                IF ParametersLen(params.v) > 0
                                THEN params.v ELSE NilParameters),
                      params.idx))
         ELSE Let(parseItem(buf, idx), LAMBDA item :
              IF item.err THEN Err(item.idx)
              ELSE IF ~eof(buf, item.idx)
                       /\ ~IsSpace(current(buf, item.idx))
                       /\ current(buf, item.idx) # tokens.CloseParen
                   THEN Err(item.idx)
              ELSE parseInnerListLoop(buf, item.idx, Append(values, item.v))))

parseInnerList(buf, idx0) ==
    Let(stripWhitespace(buf, idx0), LAMBDA idx :
    IF current(buf, idx) # tokens.OpenParen THEN Err(idx)
    ELSE parseInnerListLoop(buf, advance(buf, idx), <<>>))

\* a list parser that takes a comma before the end of input as the end
RECURSIVE parseListLoopLenient(_, _, _)
parseListLoopLenient(buf, idx, members) ==
    IF eof(buf, idx) THEN Ok(List(members), idx)
    ELSE Let(IF current(buf, idx) = tokens.OpenParen
             THEN parseInnerList(buf, idx)
             ELSE parseItem(buf, idx), LAMBDA item :
         IF item.err THEN Err(item.idx)
         ELSE Let(stripWhitespace(buf, item.idx), LAMBDA i1 :
              Let(Append(members, item.v), LAMBDA ms :
              IF eof(buf, i1) THEN Ok(List(ms), i1)
              ELSE IF current(buf, i1) # tokens.Comma THEN Err(i1)
              ELSE parseListLoopLenient(buf, stripWhitespace(buf, advance(buf, i1)), ms))))

RECURSIVE parseListLoop(_, _, _)
parseListLoop(buf, idx, members) ==
    IF eof(buf, idx) THEN Ok(List(members), idx)
    ELSE Let(IF current(buf, idx) = tokens.OpenParen
             THEN parseInnerList(buf, idx)
             ELSE parseItem(buf, idx), LAMBDA item :
         IF item.err THEN Err(item.idx)
         ELSE Let(stripWhitespace(buf, item.idx), LAMBDA i1 :
              Let(Append(members, item.v), LAMBDA ms :
              IF eof(buf, i1) THEN Ok(List(ms), i1)
              ELSE IF current(buf, i1) # tokens.Comma THEN Err(i1)
              ELSE Let(stripWhitespace(buf, advance(buf, i1)), LAMBDA i2 :
                   IF eof(buf, i2) THEN Err(i2)
                   ELSE parseListLoop(buf, i2, ms)))))

parseList(buf, idx) == parseListLoop(buf, idx, <<>>)

\* dict.keys = append(dict.keys, key); dict.values[key] = value
dictAppend(dict, key, value) ==
    Dictionary(Append(dict.keys, key), MapSet(dict.values, key, value))

\* the switch on the member's dynamic type once its parameters are parsed
attachParams(value, params) ==
    IF ParametersLen(params) > 0
    THEN IF value.kind = "Item" THEN value
         ELSE IF value.kind = "BareItem" THEN With(ToItem(value.bare), params)
         ELSE value
    ELSE value

\* the value a member written without "=" starts with: True()
defaultMember == BareMember(True)

RECURSIVE parseDictionaryLoop(_, _, _)
parseDictionaryLoop(buf, idx, dict) ==
    IF eof(buf, idx) THEN Ok(dict, idx)
    ELSE Let(parseKey(buf, idx), LAMBDA key :
         IF key.err THEN Err(key.idx)
         ELSE Let(IF ~eof(buf, key.idx) /\ current(buf, key.idx) = tokens.Equals
                  THEN IF current(buf, advance(buf, key.idx)) = tokens.OpenParen
                       THEN parseInnerList(buf, advance(buf, key.idx))
                       ELSE parseItem(buf, advance(buf, key.idx))
                  ELSE Ok(defaultMember, key.idx), LAMBDA value :
              IF value.err THEN Err(value.idx)
              ELSE Let(parseParameters(buf, value.idx), LAMBDA params :
                   IF params.err THEN Err(params.idx)
                   ELSE Let(dictAppend(dict, key.v, attachParams(value.v, params.v)),
                            LAMBDA dd :
                        Let(stripWhitespace(buf, params.idx), LAMBDA i1 :
                        IF eof(buf, i1) THEN Ok(dd, i1)
                        ELSE IF current(buf, i1) # tokens.Comma THEN Err(i1)
                        ELSE Let(stripWhitespace(buf, advance(buf, i1)), LAMBDA i2 :
                             IF eof(buf, i2) THEN Err(i2)
                             ELSE parseDictionaryLoop(buf, i2, dd)))))))

parseDictionary(buf, idx) == parseDictionaryLoop(buf, idx, NewDictionary)

\* the characters isDictionary skips as the candidate key
isDictionarySkip(c) ==
    isAlpha(c) \/ isDigit(c) \/ c = tokens.Underscore \/ c = tokens.Dash
        \/ c = tokens.Period \/ c = tokens.Colon \/ c = tokens.Slash
        \/ c = tokens.Asterisk

RECURSIVE isDictionaryLoop(_, _)
isDictionaryLoop(buf, idx) ==
    IF ~eof(buf, idx) /\ isDictionarySkip(current(buf, idx))
    THEN isDictionaryLoop(buf, advance(buf, idx))
    ELSE idx

\* a detection that takes every input for a dictionary
isDictionaryAlways(buf, idx0) == TRUE

\* the body of isDictionary: the answer, and where the lookahead has left
\* the cursor when the body returns
isDictionaryBody(buf, idx0) ==
    Let(stripWhitespace(buf, idx0), LAMBDA idx :
    IF eof(buf, idx) THEN [is |-> FALSE, idx |-> idx]
    ELSE IF ~isAlpha(current(buf, idx)) /\ current(buf, idx) # tokens.Asterisk
         THEN [is |-> FALSE, idx |-> idx]
    ELSE Let(stripWhitespace(buf, isDictionaryLoop(buf, idx)), LAMBDA i1 :
         [is |-> ~eof(buf, i1) /\ current(buf, i1) = tokens.Equals, idx |-> i1]))

\* a return without the deferred function: the cursor stays where the
\* lookahead left it
isDictionaryNoRestore(buf, savedIdx) == isDictionaryBody(buf, savedIdx).idx

\* the cursor after isDictionary has returned: "defer func() { pctx.idx =
\* savedIdx }()" runs on every return path of the body
isDictionaryRestore(buf, savedIdx) == savedIdx

\* the answer of isDictionary
isDictionary(buf, idx0) == isDictionaryBody(buf, idx0).is

\* a do that returns what the structural parser built without looking at
\* the rest of the buffer
doLenient(buf, m) ==
    Let(stripWhitespace(buf, 0), LAMBDA idx :
    Let(IF m = parseModeDictionary THEN parseDictionary(buf, idx)
        ELSE IF m = parseModeList THEN parseList(buf, idx)
        ELSE IF m = parseModeItem THEN parseItem(buf, idx)
        ELSE IF isDictionary(buf, idx) THEN parseDictionary(buf, idx)
        ELSE parseList(buf, idx), LAMBDA output :
    IF output.err THEN [err |-> TRUE, value |-> Nil]
    ELSE [err |-> FALSE, value |-> output.v]))

\* a do that stores the value before it checks for trailing bytes, and
\* returns it beside the error
doPartial(buf, m) ==
    Let(stripWhitespace(buf, 0), LAMBDA idx :
    Let(IF m = parseModeDictionary THEN parseDictionary(buf, idx)
        ELSE IF m = parseModeList THEN parseList(buf, idx)
        ELSE IF m = parseModeItem THEN parseItem(buf, idx)
        ELSE IF isDictionary(buf, idx) THEN parseDictionary(buf, idx)
        ELSE parseList(buf, idx), LAMBDA output :
    IF output.err THEN [err |-> TRUE, value |-> Nil]
    ELSE IF ~eof(buf, stripWhitespace(buf, output.idx))
         THEN [err |-> TRUE, value |-> output.v]
    ELSE [err |-> FALSE, value |-> output.v]))

\* parseContext.do: (value, error)
do(buf, m) ==
    Let(stripWhitespace(buf, 0), LAMBDA idx :
    Let(IF m = parseModeDictionary THEN parseDictionary(buf, idx)
        ELSE IF m = parseModeList THEN parseList(buf, idx)
        ELSE IF m = parseModeItem THEN parseItem(buf, idx)
        ELSE IF isDictionary(buf, idx)
             THEN parseDictionary(buf, isDictionaryRestore(buf, idx))
        ELSE parseList(buf, isDictionaryRestore(buf, idx)), LAMBDA output :
    IF output.err THEN [err |-> TRUE, value |-> Nil]
    ELSE IF ~eof(buf, stripWhitespace(buf, output.idx)) THEN [err |-> TRUE, value |-> Nil]
    ELSE [err |-> FALSE, value |-> output.v]))

parse(buf, m) == do(buf, m)

Parse(buf) == parse(buf, parseModeDefault)

ParseDictionary(buf) == parse(buf, parseModeDictionary)

ParseItem(buf) == parse(buf, parseModeItem)

---------------------------------------------------------------------------
(* UTF-8, as Go's range over a string and utf8.DecodeRuneInString read it *)

isCont(s, i) == i <= Len(s) /\ s[i] >= 128 /\ s[i] <= 191

\* the width of the valid encoding that starts at s[i], or 0 when the bytes
\* there are no valid encoding (the rune is then RuneError, of width 1)
runeWidth(s, i) ==
    LET b == s[i]
        second(lo, hi) == i + 1 <= Len(s) /\ s[i + 1] >= lo /\ s[i + 1] <= hi
    IN
    IF b < 128 THEN 1
    ELSE IF b >= 194 /\ b <= 223 THEN IF second(128, 191) THEN 2 ELSE 0
    ELSE IF b >= 224 /\ b <= 239
         THEN IF (IF b = 224 THEN second(160, 191)
                  ELSE IF b = 237 THEN second(128, 159)
                  ELSE second(128, 191)) /\ isCont(s, i + 2)
              THEN 3 ELSE 0
    ELSE IF b >= 240 /\ b <= 244
         THEN IF (IF b = 240 THEN second(144, 191)
                  ELSE IF b = 244 THEN second(128, 143)
                  ELSE second(128, 191)) /\ isCont(s, i + 2) /\ isCont(s, i + 3)
              THEN 4 ELSE 0
    ELSE 0

\* "%" and two lowercase hex digits: fmt.Sprintf("%%%.2x", b)
percentHex(b) == <<tokens.Percent, hexDigit(b \div 16), hexDigit(b % 16)>>

RECURSIVE percentHexAll(_)
percentHexAll(bs) ==
    IF bs = <<>> THEN <<>> ELSE percentHex(bs[1]) \o percentHexAll(Tail(bs))

\* the test that lets a rune of a display string through unescaped
displayPassThrough(r) == r <= 127 /\ r >= 32 /\ r # tokens.Percent

RECURSIVE displayStringBody(_, _)
displayStringBody(s, i) ==
    IF i > Len(s) THEN <<>>
    ELSE LET w == runeWidth(s, i) IN
         IF w = 1
         THEN (IF displayPassThrough(s[i]) THEN <<s[i]>> ELSE percentHex(s[i]))
                  \o displayStringBody(s, i + 1)
         ELSE IF w = 0
              THEN percentHexAll(<<239, 191, 189>>) \o displayStringBody(s, i + 1)
         ELSE percentHexAll(SubSeq(s, i, i + w - 1)) \o displayStringBody(s, i + w)

\* strconv.Quote. Runes above U+00FF are taken to be printable.
quoteEscape(c) ==
    IF c = 7 THEN <<92, 97>>
    ELSE IF c = 8 THEN <<92, 98>>
    ELSE IF c = 12 THEN <<92, 102>>
    ELSE IF c = 10 THEN <<92, 110>>
    ELSE IF c = 13 THEN <<92, 114>>
    ELSE IF c = 9 THEN <<92, 116>>
    ELSE IF c = 11 THEN <<92, 118>>
    ELSE <<92, 120, hexDigit(c \div 16), hexDigit(c % 16)>>

RECURSIVE quoteBody(_, _)
quoteBody(s, i) ==
    IF i > Len(s) THEN <<>>
    ELSE LET w == runeWidth(s, i)
             c == s[i]
         IN
         IF w = 0 THEN <<92, 120, hexDigit(c \div 16), hexDigit(c % 16)>>
                           \o quoteBody(s, i + 1)
         ELSE IF w = 1
              THEN (IF c = tokens.DoubleQuote \/ c = tokens.Backslash
                    THEN <<tokens.Backslash, c>>
                    ELSE IF c >= 32 /\ c <= 126 THEN <<c>>
                    ELSE quoteEscape(c)) \o quoteBody(s, i + 1)
         ELSE IF w = 2 /\ (c = 194 /\ (s[i + 1] <= 160 \/ s[i + 1] = 173))
              THEN <<92, 117, 48, 48, hexDigit(s[i + 1] \div 16), hexDigit(s[i + 1] % 16)>>
                       \o quoteBody(s, i + 2)
         ELSE SubSeq(s, i, i + w - 1) \o quoteBody(s, i + w)

Quote(s) == <<tokens.DoubleQuote>> \o quoteBody(s, 1) \o <<tokens.DoubleQuote>>

---------------------------------------------------------------------------
(* The encoder: the MarshalSFV methods *)

\* strconv.FormatInt(v, 10)
FormatInt(b) == (IF b.neg THEN <<tokens.Dash>> ELSE <<>>) \o b.val

\* strings.TrimRight(s, "0")
RECURSIVE TrimRightZeros(_)
TrimRightZeros(s) ==
    IF Len(s) > 0 /\ s[Len(s)] = 48 THEN TrimRightZeros(SubSeq(s, 1, Len(s) - 1)) ELSE s

IntegerMarshalSFV(b) == FormatInt(b)

DecimalMarshalSFV(b) ==
    LET str == TrimRightZeros(FormatInt(b)) IN
    IF str[Len(str)] = tokens.Period THEN Append(str, 48) ELSE str

StringMarshalSFV(b) == Quote(b.val)

TokenMarshalSFV(b) == b.val

ByteSequenceMarshalSFV(b) ==
    <<tokens.Colon>> \o base64Encode(b.val) \o <<tokens.Colon>>

BooleanMarshalSFV(b) ==
    IF b = True THEN <<tokens.QuestionMark, tokens.One>>
    ELSE <<tokens.QuestionMark, tokens.Zero>>

DateMarshalSFV(b) == <<tokens.AtMark>> \o FormatInt(b)

DisplayStringMarshalSFV(b) ==
    <<tokens.Percent, tokens.DoubleQuote>> \o displayStringBody(b.val, 1)
        \o <<tokens.DoubleQuote>>

\* the dynamic dispatch of BareItem.MarshalSFV; none of them returns an error
BareMarshalSFV(b) ==
    IF b.type = IntegerType THEN IntegerMarshalSFV(b)
    ELSE IF b.type = DecimalType THEN DecimalMarshalSFV(b)
    ELSE IF b.type = StringType THEN StringMarshalSFV(b)
    ELSE IF b.type = TokenType THEN TokenMarshalSFV(b)
    ELSE IF b.type = ByteSequenceType THEN ByteSequenceMarshalSFV(b)
    ELSE IF b.type = BooleanType THEN BooleanMarshalSFV(b)
    ELSE IF b.type = DateType THEN DateMarshalSFV(b)
    ELSE DisplayStringMarshalSFV(b)

\* an order in which "for key := range p.Values" fills an empty key list;
\* Go leaves it unspecified. The sessions that hold a Parameters with an
\* empty key list beside a filled map choose the order themselves
\* (populateKeys) before the parameters are written
RECURSIVE mapOrder(_)
mapOrder(ks) ==
    IF ks = {} THEN <<>>
    ELSE LET k == CHOOSE x \in ks : TRUE IN <<k>> \o mapOrder(ks \ {k})

\* an encoder that knows no bare keys
isBooleanTrueNever(b) == FALSE

\* is this bare item the Boolean true, which is written as a bare key
isBooleanTrue(b) == b.type = BooleanType /\ b = True

\* one parameter: ";", " ", the key and, unless the value is true, "=value"
paramMarshalSFV(q, key) ==
    <<tokens.Semicolon, 32>> \o key \o
        (IF key \notin DOMAIN q.Values THEN <<>>
         ELSE IF isBooleanTrue(q.Values[key]) THEN <<>>
         ELSE <<tokens.Equals>> \o BareMarshalSFV(q.Values[key]))

RECURSIVE paramsJoin(_, _)
paramsJoin(q, keys) ==
    IF keys = <<>> THEN <<>>
    ELSE paramMarshalSFV(q, keys[1]) \o paramsJoin(q, Tail(keys))

ParametersMarshalSFV(q) ==
    IF q.nil \/ ParametersLen(q) = 0 THEN <<>>
    ELSE paramsJoin(q, IF Len(q.keys) = 0 THEN mapOrder(DOMAIN q.Values) ELSE q.keys)

\* fullItem.MarshalSFV, and MarshalSFV of a bare item held as a member
ItemMarshalSFV(item) ==
    BareMarshalSFV(item.bare) \o
        (IF item.kind = "Item" /\ ~item.params.nil /\ ParametersLen(item.params) > 0
         THEN ParametersMarshalSFV(item.params) ELSE <<>>)

RECURSIVE innerListJoin(_, _)
innerListJoin(values, i) ==
    IF i > Len(values) THEN <<>>
    ELSE (IF i > 1 THEN <<32>> ELSE <<>>) \o ItemMarshalSFV(values[i])
             \o innerListJoin(values, i + 1)

InnerListMarshalSFV(il) ==
    <<tokens.OpenParen>> \o innerListJoin(il.values, 1) \o <<tokens.CloseParen>>
        \o (IF ~il.params.nil /\ ParametersLen(il.params) > 0
            THEN ParametersMarshalSFV(il.params) ELSE <<>>)

\* MarshalSFV of a List member or a Dictionary value
memberMarshalSFV(m) ==
    IF m.kind = "InnerList" THEN InnerListMarshalSFV(m) ELSE ItemMarshalSFV(m)

RECURSIVE listJoin(_, _)
listJoin(values, i) ==
    IF i > Len(values) THEN <<>>
    ELSE (IF i > 1 THEN <<tokens.Comma, 32>> ELSE <<>>) \o memberMarshalSFV(values[i])
             \o listJoin(values, i + 1)

ListMarshalSFV(l) == listJoin(l.values, 1)

\* one member of a Dictionary: the key, then nothing but the parameters for
\* a Boolean true, and "=" and the value's encoding for anything else
dictMemberMarshalSFV(key, value) ==
    LET isBareKey == value.kind \in {"Item", "BareItem"} /\ isBooleanTrue(value.bare) IN
    key \o
        (IF isBareKey
         THEN IF value.kind = "Item" /\ ~value.params.nil
                   /\ ParametersLen(value.params) > 0
              THEN ParametersMarshalSFV(value.params) ELSE <<>>
         ELSE <<tokens.Equals>> \o
                  (IF value.kind = "BareItem" THEN ItemMarshalSFV(ToItem(value.bare))
                   ELSE memberMarshalSFV(value)))

\* the keys of d.keys that d.GetValue finds, in order
RECURSIVE dictParts(_, _)
dictParts(dict, i) ==
    IF i > Len(dict.keys) THEN <<>>
    ELSE (IF dict.keys[i] \in DOMAIN dict.values
          THEN <<dictMemberMarshalSFV(dict.keys[i], dict.values[dict.keys[i]])>>
          ELSE <<>>) \o dictParts(dict, i + 1)

\* strings.Join(parts, ", ")
RECURSIVE Join(_, _)
Join(parts, i) ==
    IF i > Len(parts) THEN <<>>
    ELSE (IF i > 1 THEN <<tokens.Comma, 32>> ELSE <<>>) \o parts[i] \o Join(parts, i + 1)

DictionaryMarshalSFV(dict) ==
    IF Len(dict.keys) = 0 THEN <<>> ELSE Join(dictParts(dict, 1), 1)

\* the MarshalSFV method of a value of the model
MarshalSFV(v) ==
    IF v.kind = "List" THEN [err |-> FALSE, bytes |-> ListMarshalSFV(v)]
    ELSE IF v.kind = "Dictionary" THEN [err |-> FALSE, bytes |-> DictionaryMarshalSFV(v)]
    ELSE [err |-> FALSE, bytes |-> memberMarshalSFV(v)]

\* a host integer: int, int8 .. int64 as "int", uint .. uint64 as "uint"
HostInt(kind, neg, digits) ==
    [kind |-> kind, neg |-> neg /\ StripZeros(digits) # <<48>>, val |-> StripZeros(digits)]

\* a bound that leaves out 999999999999999 itself
valueToSFVExclusive(v) ==
    IF v.kind \in {"int", "uint"}
    THEN IF ~DigitsGreater(maxSFVInteger, v.val)
         THEN [err |-> TRUE, v |-> Nil]
         ELSE [err |-> FALSE, v |-> BareMember(BareInteger(v.neg, v.val))]
    ELSE [err |-> FALSE, v |-> v]

\* a host slice ([]T): its elements are host values
HostSlice(elems) == [kind |-> "slice", elems |-> elems]

\* the kinds of host value the model hands to Marshal and Encode
HostKinds == {"int", "uint", "slice"}

RECURSIVE valueToSFV(_)

\* the loop of sliceToList: each element is converted in turn and the first
\* failure ends the conversion
RECURSIVE sliceToListFrom(_, _, _)
sliceToListFrom(elems, i, values) ==
    IF i > Len(elems) THEN [err |-> FALSE, v |-> List(values)]
    ELSE Let(valueToSFV(elems[i]), LAMBDA sfvValue :
         IF sfvValue.err THEN [err |-> TRUE, v |-> Nil]
         ELSE sliceToListFrom(elems, i + 1, Append(values, sfvValue.v)))

sliceToList(rv) == sliceToListFrom(rv.elems, 1, <<>>)

\* valueToSFV on the values of the model: nil is an error, an SFV value is
\* returned as it is, a host integer becomes an Integer when it is within
\* the bound, and a slice becomes a List
valueToSFV(v) ==
    IF v = Nil THEN [err |-> TRUE, v |-> Nil]
    ELSE IF v.kind = "int"
    THEN IF (~v.neg /\ DigitsGreater(v.val, maxSFVInteger))
              \/ (v.neg /\ DigitsGreater(v.val, maxSFVInteger))
         THEN [err |-> TRUE, v |-> Nil]
         ELSE [err |-> FALSE, v |-> BareMember(BareInteger(v.neg, v.val))]
    ELSE IF v.kind = "uint"
    THEN IF DigitsGreater(v.val, maxSFVInteger)
         THEN [err |-> TRUE, v |-> Nil]
         ELSE [err |-> FALSE, v |-> BareMember(BareInteger(FALSE, v.val))]
    ELSE IF v.kind = "slice" THEN sliceToList(v)
    ELSE [err |-> FALSE, v |-> v]

\* Marshal(v): (bytes, error)
Marshal(v) ==
    IF v = Nil THEN [err |-> FALSE, bytes |-> <<>>]
    ELSE IF v.kind \notin HostKinds THEN MarshalSFV(v)
    ELSE Let(valueToSFV(v), LAMBDA sfvValue :
         IF sfvValue.err THEN [err |-> TRUE, bytes |-> <<>>]
         ELSE MarshalSFV(sfvValue.v))

---------------------------------------------------------------------------
(* The Encoder: Encode writes to a sink what Marshal would return, with   *)
(* the spacing after ";" adjusted                                         *)

\* &Encoder{dst: dst, parameterSpacing: " "}; dst is kept as the bytes the
\* sink has received
NewEncoder == [parameterSpacing |-> <<32>>, dst |-> <<>>]

SetParameterSpacing(e, spacing) == [e EXCEPT !.parameterSpacing = spacing]

\* enc.dst.Write(b) on a sink that takes every byte
Write(e, b) == [e EXCEPT !.dst = @ \o b]

\* old occurs in s at position i
HasPrefixAt(s, i, old) ==
    i + Len(old) - 1 <= Len(s) /\ SubSeq(s, i, i + Len(old) - 1) = old

\* bytes.ReplaceAll for a non-empty old: the non-overlapping occurrences,
\* from the left
RECURSIVE ReplaceAllFrom(_, _, _, _)
ReplaceAllFrom(s, i, old, new) ==
    IF i > Len(s) THEN <<>>
    ELSE IF HasPrefixAt(s, i, old)
         THEN new \o ReplaceAllFrom(s, i + Len(old), old, new)
         ELSE <<s[i]>> \o ReplaceAllFrom(s, i + 1, old, new)

ReplaceAll(s, old, new) == ReplaceAllFrom(s, 1, old, new)

\* an encoder that leaves the bytes as they are
postProcessNone(e, bytes) == bytes

postProcessParameters(e, bytes) ==
    IF e.parameterSpacing = <<32>> THEN bytes
    ELSE IF e.parameterSpacing = <<>>
         THEN ReplaceAll(bytes, <<tokens.Semicolon, 32>>, <<tokens.Semicolon>>)
    ELSE ReplaceAll(bytes, <<tokens.Semicolon, 32>>,
                    <<tokens.Semicolon>> \o e.parameterSpacing)

\* an encoder that writes the members of a slice to the sink one at a time,
\* as it converts them
RECURSIVE EncodeElements(_, _, _)
EncodeElements(e, elems, i) ==
    IF i > Len(elems) THEN [err |-> FALSE, enc |-> e]
    ELSE Let(valueToSFV(elems[i]), LAMBDA sfvValue :
         IF sfvValue.err THEN [err |-> TRUE, enc |-> e]
         ELSE EncodeElements(
                  Write(e, (IF i > 1 THEN <<tokens.Comma, 32>> ELSE <<>>)
                               \o postProcessParameters(e, MarshalSFV(sfvValue.v).bytes)),
                  elems, i + 1))

EncodeStreaming(e, v) ==
    IF v = Nil THEN [err |-> TRUE, enc |-> e]
    ELSE IF v.kind = "slice" THEN EncodeElements(e, v.elems, 1)
    ELSE Let(valueToSFV(v), LAMBDA sfvValue :
         IF sfvValue.err THEN [err |-> TRUE, enc |-> e]
         ELSE [err |-> FALSE,
               enc |-> Write(e, postProcessParameters(e, MarshalSFV(sfvValue.v).bytes))])

\* (enc *Encoder) Encode(v): the error, and the Encoder with its sink
\* afterwards
RECURSIVE Encode(_, _)
Encode(e, v) ==
    IF v = Nil THEN [err |-> TRUE, enc |-> e]
    ELSE IF v.kind \notin HostKinds
    THEN Let(MarshalSFV(v), LAMBDA result :
         IF result.err THEN [err |-> TRUE, enc |-> e]
         ELSE [err |-> FALSE, enc |-> Write(e, postProcessParameters(e, result.bytes))])
    ELSE Let(valueToSFV(v), LAMBDA sfvValue :
         IF sfvValue.err THEN [err |-> TRUE, enc |-> e]
         ELSE Encode(e, sfvValue.v))

---------------------------------------------------------------------------
(* Sessions: a caller parses a buffer, marshals the value, and does it again *)

\* bounds of the model
MaxFrags == 3

\* the pieces the input buffers are put together from
Frags ==
    {
      <<97>>,   \* a
      <<97, 61, 49>>,   \* a=1
      <<44, 32, 97, 61, 50>>,   \* , a=2
      <<44, 32, 98>>,   \* , b
      <<59, 120>>,   \* ;x
      <<59, 120, 61, 63, 48>>,   \* ;x=?0
      <<61, 63, 49>>,   \* =?1
      <<61, 40, 49, 32, 50, 41>>,   \* =(1 2)
      <<37, 34, 37, 50, 50, 34>>,   \* %"%22"
      <<37, 34, 37, 55, 102, 34>>,   \* %"%7f"
      <<32>>,   \*  
      <<34, 99, 34>>    \* "c"
    }

RECURSIVE FlattenFrom(_, _)
FlattenFrom(ss, i) ==
    IF i > Len(ss) THEN <<>> ELSE ss[i] \o FlattenFrom(ss, i + 1)

Flatten(ss) == FlattenFrom(ss, 1)

SeqsUpTo(S, n) == UNION { [1..k -> S] : k \in 0..n }

Inputs == { Flatten(fs) : fs \in SeqsUpTo(Frags, MaxFrags) }

\* the results before the call that sets them
NoResult == [err |-> TRUE, value |-> Nil]
NoBytes == [err |-> TRUE, bytes |-> <<>>]
NoHost == [kind |-> "int", neg |-> FALSE, val |-> <<48>>]

\* what every session starts with, whatever it goes on to do
Idle ==
    /\ mode = parseModeDefault
    /\ res = NoResult /\ out = NoBytes /\ res2 = NoResult /\ out2 = NoBytes
    /\ host = NoHost
    /\ p = NewParameters /\ d = NewDictionary
    /\ ret = "nil" /\ hist = <<>>
    /\ enc = NewEncoder /\ heap = <<>> /\ refs = <<>>
    /\ pctx = [idx |-> 0]

Init ==
    /\ pc = "input"
    /\ data \in Inputs
    /\ tree = Nil
    /\ Idle

CallParseMode(m) ==
    /\ pc = "input"
    /\ mode' = m
    /\ res' = parse(data, m)
    /\ pc' = "parsed"
    /\ UNCHANGED <<pctx, enc, heap, refs, data, out, res2, out2, tree, host, p, d, ret, hist>>

CallParse == CallParseMode(parseModeDefault)

CallParseDictionary == CallParseMode(parseModeDictionary)

CallParseItem == CallParseMode(parseModeItem)

CallMarshal ==
    /\ pc = "parsed"
    /\ ~res.err
    /\ out' = Marshal(res.value)
    /\ pc' = "marshaled"
    /\ UNCHANGED <<pctx, enc, heap, refs, data, mode, res, res2, out2, tree, host, p, d, ret, hist>>

CallParseAgain ==
    /\ pc = "marshaled"
    /\ ~out.err
    /\ res2' = parse(out.bytes, mode)
    /\ pc' = "reparsed"
    /\ UNCHANGED <<pctx, enc, heap, refs, data, mode, res, out, out2, tree, host, p, d, ret, hist>>

CallMarshalAgain ==
    /\ pc = "reparsed"
    /\ ~res2.err
    /\ out2' = Marshal(res2.value)
    /\ pc' = "remarshaled"
    /\ UNCHANGED <<pctx, enc, heap, refs, data, mode, res, out, res2, tree, host, p, d, ret, hist>>

Next ==
    \/ CallParse
    \/ CallParseDictionary
    \/ CallParseItem
    \/ CallMarshal
    \/ CallParseAgain
    \/ CallMarshalAgain

Spec == Init /\ [][Next]_vars

---------------------------------------------------------------------------
(* Properties of parsing and marshaling a buffer *)

NoDuplicates(s) == \A i, j \in 1..Len(s) : s[i] = s[j] => i = j

\* the first call was Parse and returned a value
Parsed == pc # "input" /\ mode = parseModeDefault /\ ~res.err

\* a parse call of the session returned a Dictionary
ParsedDictionary == pc # "input" /\ ~res.err /\ res.value.kind = "Dictionary"

\* C2: for every input Parse accepts, Marshal(Parse(s)) is accepted by Parse
\* again, and marshaling that second value gives the same bytes as the first
\* marshal did
MarshalParseIdempotent ==
    /\ (pc \in {"reparsed", "remarshaled"} /\ mode = parseModeDefault) => ~res2.err
    /\ (pc = "remarshaled" /\ mode = parseModeDefault) =>
           (~out2.err /\ out2.bytes = out.bytes)

\* C5: the keys of a Dictionary returned by Parse or ParseDictionary hold
\* each key once, one entry per stored value
ParsedDictionaryKeysUnique ==
    ParsedDictionary =>
        /\ NoDuplicates(res.value.keys)
        /\ Len(res.value.keys) = Cardinality(DOMAIN res.value.values)

\* C6: every member value of a Dictionary returned by Parse or
\* ParseDictionary is an Item, carrying a Parameters collection, or an
\* InnerList
ParsedDictionaryMembersAreItems ==
    ParsedDictionary =>
        \A k \in DOMAIN res.value.values :
            \/ res.value.values[k].kind = "InnerList"
            \/ (res.value.values[k].kind = "Item" /\ ~res.value.values[k].params.nil)

---------------------------------------------------------------------------
(* Sessions on canonical input: the buffer is the encoder's output for a value *)

MaxDisplayLen == 5

\* the bytes the display strings are made of: '"', ';', 'x', '='
DisplayBytes == {34, 59, 120, 61}

DisplayValues == SeqsUpTo(DisplayBytes, MaxDisplayLen)

\* bare items of every kind but DisplayString
CoreBareItems ==
    { BareInteger(FALSE, <<49>>),               \* 1
      BareInteger(TRUE, <<52, 50>>),            \* -42
      BareDecimal(FALSE, <<49, 46, 53, 48, 48>>),  \* 1.5
      BareString(<<97, 34, 98>>),               \* a"b
      BareToken(<<116, 47, 42>>),               \* t/*
      BareByteSequence(<<104, 105>>),           \* hi
      True,
      False,
      BareDate(FALSE, <<49, 50>>) }             \* 12

ParameterValues ==
    { NewParameters,
      Parameters(<<<<120>>>>, MapSet(<<>>, <<120>>, True)),
      Parameters(<<<<121>>, <<120>>>>,
                 MapSet(MapSet(<<>>, <<121>>, BareInteger(FALSE, <<49>>)),
                        <<120>>, BareString(<<>>))) }

CoreItems == { FullItem(b, q) : b \in CoreBareItems, q \in {NewParameters} }

DisplayItems ==
    { FullItem(BareDisplayString(v), q) : v \in DisplayValues, q \in ParameterValues }

InnerLists ==
    { InnerList(vs, q) :
        vs \in SeqsUpTo({ToItem(True), ToItem(BareInteger(FALSE, <<49>>))}, 2),
        q \in { Parameters(<<<<120>>>>, MapSet(<<>>, <<120>>, True)), NilParameters } }

\* the values Parse returns: lists and dictionaries
Trees ==
    { List(<<i>>) : i \in CoreItems \cup DisplayItems }
        \cup { List(<<i, l>>) : i \in CoreItems, l \in InnerLists }
        \cup { Dictionary(<<<<97>>, <<98>>>>, MapSet(MapSet(<<>>, <<97>>, i), <<98>>, l)) :
                 i \in CoreItems, l \in InnerLists }

InitCanon ==
    /\ pc = "input"
    /\ tree \in Trees
    /\ data = Marshal(tree).bytes
    /\ Idle

SpecCanon == InitCanon /\ [][Next]_vars

\* C1: when the buffer is the encoder's output for a value and Parse accepts
\* it, Marshal of the parsed value returns exactly the bytes of the buffer
CanonicalRoundTrip ==
    (pc = "marshaled" /\ mode = parseModeDefault) => (~out.err /\ out.bytes = data)

---------------------------------------------------------------------------
(* Sessions on integers: literals handed to the parser, host integers and *)
(* directly constructed Integers handed to Marshal                        *)

MaxDigits == 17

\* n digits: a leading digit, then one digit repeated
DigitStrings ==
    { [i \in 1..n |-> IF i = 1 THEN lead ELSE fill] :
        n \in 0..MaxDigits, lead \in {48, 49, 57}, fill \in {48, 57} }

IntLiterals ==
    { (IF neg THEN <<tokens.Dash>> ELSE <<>>) \o ds :
        neg \in BOOLEAN, ds \in DigitStrings }

LiteralNeg(s) == Len(s) > 0 /\ s[1] = tokens.Dash

LiteralDigits(s) == IF LiteralNeg(s) THEN Tail(s) ELSE s

InitInt ==
    /\ pc = "input"
    /\ data \in IntLiterals
    /\ tree = Nil
    /\ Idle

\* Marshal(v) of the host integer v the literal denotes
CallMarshalHost ==
    /\ pc = "input"
    /\ Len(LiteralDigits(data)) >= 1
    /\ \E kind \in {"int", "uint"} :
           /\ kind = "uint" => ~LiteralNeg(data)
           /\ host' = HostInt(kind, LiteralNeg(data), LiteralDigits(data))
    /\ out' = Marshal(host')
    /\ pc' = "hostMarshaled"
    /\ UNCHANGED <<pctx, enc, heap, refs, data, mode, res, res2, out2, tree, p, d, ret, hist>>

\* Marshal(sfv.Integer(v)) and Marshal(sfv.BareInteger(v))
CallMarshalInteger ==
    /\ pc = "input"
    /\ Len(LiteralDigits(data)) >= 1
    /\ \E full \in BOOLEAN :
           tree' = IF full
                   THEN ToItem(BareInteger(HostInt("int", LiteralNeg(data), LiteralDigits(data)).neg,
                                           StripZeros(LiteralDigits(data))))
                   ELSE BareMember(BareInteger(HostInt("int", LiteralNeg(data), LiteralDigits(data)).neg,
                                               StripZeros(LiteralDigits(data))))
    /\ out' = Marshal(tree')
    /\ pc' = "valueMarshaled"
    /\ UNCHANGED <<pctx, enc, heap, refs, data, mode, res, res2, out2, host, p, d, ret, hist>>

NextInt == Next \/ CallMarshalHost \/ CallMarshalInteger

SpecInt == InitInt /\ [][NextInt]_vars

\* the parse call returned the Integer the literal denotes
IntegerAccepted ==
    /\ ~res.err
    /\ \/ mode = parseModeItem /\ res.value.kind = "Item"
              /\ res.value.bare.type = IntegerType
       \/ mode = parseModeDefault /\ res.value.kind = "List"
              /\ Len(res.value.values) = 1
              /\ res.value.values[1].kind = "Item"
              /\ res.value.values[1].bare.type = IntegerType

\* C3: a literal of n digits is accepted exactly when 1 <= n <= 15; Marshal
\* of a host integer succeeds, with the decimal form of the integer, exactly
\* when its magnitude has at most 15 digits; an accepted literal without
\* leading zeros marshals back to itself
IntegerBound ==
    /\ (pc = "parsed" /\ mode # parseModeDictionary) =>
           (IntegerAccepted <=> Len(LiteralDigits(data)) \in 1..15)
    /\ (pc = "hostMarshaled") =>
           /\ ~out.err <=> Len(host.val) <= 15
           /\ ~out.err => out.bytes = (IF host.neg THEN <<tokens.Dash>> ELSE <<>>) \o host.val
    /\ (pc = "marshaled" /\ mode # parseModeDictionary
            /\ LiteralDigits(data) = maxSFVInteger) => out.bytes = data

\* -999999999999999 given as a host integer has been marshaled
IntegerBoundWitness ==
    pc = "hostMarshaled" /\ host.neg /\ host.val = maxSFVInteger /\ ~out.err

\* C4: Marshal of a directly constructed Integer of more than 15 digits
\* returns an error, so the bytes Marshal returns for an Integer are always
\* a literal the parser accepts
MarshalValidatesInteger ==
    (pc = "valueMarshaled") =>
        /\ Len(tree.bare.val) > 15 => out.err
        /\ ~out.err => ~ParseItem(out.bytes).err

---------------------------------------------------------------------------
(* Sessions on parameters: the buffer is an item or an inner list followed *)
(* by a list of written parameters                                        *)

MaxParams == 3

ParamKeys == { <<97>>, <<98>> }     \* a, b

\* what is written after the key: nothing (Nil), or "=" and a bare item
WrittenValues == { Nil, BareInteger(FALSE, <<49>>), BareInteger(FALSE, <<50>>), False }

\* one written parameter or one Set call: the key, the value, and whether
\* the call returned an error
Assignment(key, value, err) == [key |-> key, value |-> value, err |-> err]

WrittenParams ==
    SeqsUpTo({ Assignment(k, v, FALSE) : k \in ParamKeys, v \in WrittenValues }, MaxParams)

RECURSIVE writeParams(_, _)
writeParams(as, i) ==
    IF i > Len(as) THEN <<>>
    ELSE <<tokens.Semicolon>> \o as[i].key
             \o (IF as[i].value = Nil THEN <<>>
                 ELSE <<tokens.Equals>> \o BareMarshalSFV(as[i].value))
             \o writeParams(as, i + 1)

ParamSubjects ==
    { ToItem(BareInteger(FALSE, <<49>>)),
      InnerList(<<ToItem(BareInteger(FALSE, <<49>>))>>, NilParameters) }

InitParams ==
    /\ pc = "input"
    /\ tree \in ParamSubjects
    /\ hist \in WrittenParams
    /\ data = Marshal(tree).bytes \o writeParams(hist, 1)
    /\ mode = parseModeDefault
    /\ res = NoResult /\ out = NoBytes /\ res2 = NoResult /\ out2 = NoBytes
    /\ host = NoHost
    /\ p = NewParameters /\ d = NewDictionary
    /\ ret = "nil"
    /\ enc = NewEncoder /\ heap = <<>> /\ refs = <<>>
    /\ pctx = [idx |-> 0]

SpecParams == InitParams /\ [][Next]_vars

\* the assignments that took effect
Effective(as) == { i \in 1..Len(as) : ~as[i].err }

\* the keys of the effective assignments, each at its first occurrence
FirstKeys(as) ==
    LET firsts == { i \in Effective(as) :
                      \A j \in Effective(as) : as[j].key = as[i].key => j >= i }
        nth(n) == CHOOSE i \in firsts : Cardinality({ j \in firsts : j < i }) = n - 1
    IN [n \in 1..Cardinality(firsts) |-> as[nth(n)].key]

\* the value of the last effective assignment to key; a parameter written
\* without a value is Boolean true
LastValue(as, key) ==
    LET last == CHOOSE i \in Effective(as) :
                    /\ as[i].key = key
                    /\ \A j \in Effective(as) : as[j].key = key => j <= i
    IN IF as[last].value = Nil THEN True ELSE as[last].value

\* q holds exactly what the assignments say: each key once, at the place of
\* its first assignment, with the value of its last
HoldsAssignments(q, as) ==
    /\ q.keys = FirstKeys(as)
    /\ DOMAIN q.Values = { as[i].key : i \in Effective(as) }
    /\ \A k \in DOMAIN q.Values : q.Values[k] = LastValue(as, k)

\* the Parameters of the item or inner list a parse call returned
ParsedParameters ==
    IF mode = parseModeItem THEN res.value.params ELSE res.value.values[1].params

\* C8: the Parameters parsed after an item or an inner list hold each
\* written key once, at the position of its first occurrence, with the value
\* of its last occurrence, and Boolean true for a key written without "="
ParameterOverwrite ==
    (pc = "parsed" /\ mode # parseModeDictionary
        /\ (mode = parseModeItem => tree.kind = "Item")) =>
            /\ ~res.err
            /\ HoldsAssignments(ParsedParameters, hist)

\* ";a=1;a=2" (and more) after an item has been parsed
ParameterOverwriteWitness ==
    /\ pc = "parsed" /\ mode = parseModeItem /\ ~res.err
    /\ Len(hist) >= 3
    /\ hist[1] = Assignment(<<97>>, BareInteger(FALSE, <<49>>), FALSE)
    /\ hist[2] = Assignment(<<98>>, Nil, FALSE)
    /\ hist[3] = Assignment(<<97>>, BareInteger(FALSE, <<50>>), FALSE)
    /\ ParsedParameters.keys = << <<97>>, <<98>> >>

---------------------------------------------------------------------------
(* The value API: Parameters.Set, Dictionary.Set, Item.Parameter *)

bareItemStringMode == 0
bareItemTokenMode == 1
bareItemDisplayStringMode == 2

\* a Set that appends the key whether or not the map holds it already
ParametersSetAppending(q, key, value) ==
    IF q.nil THEN [err |-> TRUE, p |-> q]
    ELSE IF value = Nil THEN [err |-> TRUE, p |-> q]
    ELSE [err |-> FALSE,
          p |-> Parameters(Append(q.keys, key), MapSet(q.Values, key, value))]

\* (p *Parameters) Set(key, value): the Parameters afterwards and the error
ParametersSet(q, key, value) ==
    IF q.nil THEN [err |-> TRUE, p |-> q]
    ELSE IF value = Nil THEN [err |-> TRUE, p |-> q]
    ELSE [err |-> FALSE,
          p |-> Parameters(IF key \in DOMAIN q.Values THEN q.keys ELSE Append(q.keys, key),
                           MapSet(q.Values, key, value))]

\* (d *Dictionary) Set(key, value): the Dictionary afterwards and the error
DictionarySet(dict, key, value) ==
    IF value.kind \notin {"Item", "BareItem", "InnerList"}
    THEN [err |-> TRUE, d |-> dict]
    ELSE [err |-> FALSE,
          d |-> Dictionary(IF key \in DOMAIN dict.values
                           THEN dict.keys ELSE Append(dict.keys, key),
                           MapSet(dict.values, key, value))]

\* host values handed to Item.Parameter
HostBare(b) == [kind |-> "bare", bare |-> b]
HostString(s) == [kind |-> "string", str |-> s]
HostBool(b) == [kind |-> "bool", bool |-> b]
HostOther == [kind |-> "struct"]

bareItemFrom(value, stringMode) ==
    IF value.kind = "bare" THEN [err |-> FALSE, v |-> value.bare]
    ELSE IF value.kind = "string"
         THEN [err |-> FALSE,
               v |-> IF stringMode = bareItemTokenMode THEN BareToken(value.str)
                     ELSE IF stringMode = bareItemDisplayStringMode
                          THEN BareDisplayString(value.str)
                     ELSE BareString(value.str)]
    ELSE IF value.kind = "bool"
         THEN [err |-> FALSE, v |-> IF value.bool THEN True ELSE False]
    ELSE IF value.kind = "int"
         THEN [err |-> FALSE, v |-> BareInteger(value.neg, value.val)]
    ELSE [err |-> TRUE, v |-> Nil]

\* (item *fullItem) Parameter(name, value): the item afterwards and the error
ItemParameter(item, name, value) ==
    Let(bareItemFrom(value, bareItemTokenMode), LAMBDA bi :
    IF bi.err THEN [err |-> TRUE, item |-> item]
    ELSE Let(ParametersSet(item.params, name, bi.v), LAMBDA set :
         IF set.err THEN [err |-> TRUE, item |-> item]
         ELSE [err |-> FALSE, item |-> FullItem(item.bare, set.p)]))

MaxCalls == 3

SetKeys == { <<97>>, <<98>>, <<65>> }     \* a, b, A

SetValues == { True, False, BareInteger(FALSE, <<49>>), Nil }

MemberKeys == { <<97>>, <<65>> }          \* a, A

MemberValues ==
    { BareMember(True),
      FullItem(True, Parameters(<<<<120>>>>, MapSet(<<>>, <<120>>, BareInteger(FALSE, <<49>>)))),
      ToItem(False),
      ToItem(BareInteger(FALSE, <<49>>)),
      InnerList(<<ToItem(True)>>, NilParameters),
      List(<<>>) }

HostValues ==
    { HostBare(True), HostBool(FALSE), HostString(<<118>>),
      HostInt("int", FALSE, <<49>>), HostOther }

InitAPI ==
    /\ pc \in {"params", "dict", "item"}
    /\ data = <<>>
    /\ tree = ToItem(BareToken(<<120>>))
    /\ Idle

ErrorOf(err) == IF err THEN "error" ELSE "nil"

CallParametersSet ==
    /\ pc = "params"
    /\ Len(hist) < MaxCalls
    /\ \E key \in SetKeys, value \in SetValues :
           /\ p' = ParametersSet(p, key, value).p
           /\ ret' = ErrorOf(ParametersSet(p, key, value).err)
           /\ hist' = Append(hist, Assignment(key, value, ParametersSet(p, key, value).err))
    /\ UNCHANGED <<pctx, enc, heap, refs, pc, data, mode, res, out, res2, out2, tree, host, d>>

CallDictionarySet ==
    /\ pc = "dict"
    /\ Len(hist) < MaxCalls
    /\ \E key \in MemberKeys, value \in MemberValues :
           /\ d' = DictionarySet(d, key, value).d
           /\ ret' = ErrorOf(DictionarySet(d, key, value).err)
           /\ hist' = Append(hist, Assignment(key, value, DictionarySet(d, key, value).err))
    /\ UNCHANGED <<pctx, enc, heap, refs, pc, data, mode, res, out, res2, out2, tree, host, p>>

CallItemParameter ==
    /\ pc = "item"
    /\ Len(hist) < MaxCalls
    /\ \E name \in MemberKeys, value \in HostValues :
           /\ tree' = ItemParameter(tree, name, value).item
           /\ ret' = ErrorOf(ItemParameter(tree, name, value).err)
           /\ hist' = Append(hist, Assignment(name, bareItemFrom(value, bareItemTokenMode).v,
                                              ItemParameter(tree, name, value).err))
    /\ UNCHANGED <<pctx, enc, heap, refs, pc, data, mode, res, out, res2, out2, host, p, d>>

\* p.MarshalSFV()
CallMarshalParameters ==
    /\ pc = "params"
    /\ out' = [err |-> FALSE, bytes |-> ParametersMarshalSFV(p)]
    /\ pc' = "paramsMarshaled"
    /\ UNCHANGED <<pctx, enc, heap, refs, data, mode, res, res2, out2, tree, host, p, d, ret, hist>>

\* Marshal(d)
CallMarshalDictionary ==
    /\ pc = "dict"
    /\ out' = Marshal(d)
    /\ pc' = "dictMarshaled"
    /\ UNCHANGED <<pctx, enc, heap, refs, data, mode, res, res2, out2, tree, host, p, d, ret, hist>>

\* Marshal(item)
CallMarshalItem ==
    /\ pc = "item"
    /\ out' = Marshal(tree)
    /\ pc' = "itemMarshaled"
    /\ UNCHANGED <<pctx, enc, heap, refs, data, mode, res, res2, out2, tree, host, p, d, ret, hist>>

NextAPI ==
    \/ CallParametersSet
    \/ CallDictionarySet
    \/ CallItemParameter
    \/ CallMarshalParameters
    \/ CallMarshalDictionary
    \/ CallMarshalItem

SpecAPI == InitAPI /\ [][NextAPI]_vars

---------------------------------------------------------------------------
(* Properties of the value API *)

\* parseKey reads the whole of k as one key
KeyAccepted(k) == ~parseKey(k, 0).err /\ parseKey(k, 0).idx = Len(k)

\* C7: every key held by a Parameters or a Dictionary, stored by
\* Parameters.Set, Dictionary.Set or Item.Parameter, matches the key
\* grammar, that is, parseKey accepts it
StoredKeysMatchGrammar ==
    /\ \A i \in 1..Len(p.keys) : KeyAccepted(p.keys[i])
    /\ \A i \in 1..Len(d.keys) : KeyAccepted(d.keys[i])
    /\ tree.kind = "Item" => \A i \in 1..Len(tree.params.keys) : KeyAccepted(tree.params.keys[i])

\* C9: after any sequence of Set calls on a Parameters from NewParameters,
\* the key list has no duplicates and holds the keys of the value map, in
\* the order of their first Set, each with the value of its last Set; a Set
\* fails exactly when the value is nil, and a failed Set changes nothing
ParametersSetInvariant ==
    (pc \in {"params", "paramsMarshaled"}) =>
        /\ NoDuplicates(p.keys)
        /\ { p.keys[i] : i \in 1..Len(p.keys) } = DOMAIN p.Values
        /\ HoldsAssignments(p, hist)
        /\ \A i \in 1..Len(hist) : hist[i].err <=> hist[i].value = Nil
        /\ ret = "error" <=> (hist # <<>> /\ hist[Len(hist)].err)

\* a is set, b is set, a is set again to another value, and a Set with a
\* nil value has failed in between
ParametersSetWitness ==
    /\ pc = "params" /\ Len(hist) = 3
    /\ hist[1].key = <<97>> /\ ~hist[1].err
    /\ hist[2].key = <<98>> /\ ~hist[2].err
    /\ hist[3].key = <<97>> /\ ~hist[3].err /\ hist[3].value # hist[1].value
    /\ p.keys = << <<97>>, <<98>> >>

\* what a parameter is written as
ExpectedParameter(key, value) ==
    <<tokens.Semicolon, 32>> \o key \o
        (IF value = True THEN <<>>
         ELSE IF value = False THEN <<tokens.Equals, tokens.QuestionMark, tokens.Zero>>
         ELSE <<tokens.Equals>> \o BareMarshalSFV(value))

RECURSIVE ExpectedParameters(_, _)
ExpectedParameters(q, i) ==
    IF i > Len(q.keys) THEN <<>>
    ELSE ExpectedParameter(q.keys[i], q.Values[q.keys[i]]) \o ExpectedParameters(q, i + 1)

\* what a Dictionary member is written as
ExpectedMember(key, value) ==
    IF value.kind = "InnerList" THEN key \o <<tokens.Equals>> \o InnerListMarshalSFV(value)
    ELSE IF value.bare = True THEN key \o ExpectedParameters(value.params, 1)
    ELSE IF value.bare = False
         THEN key \o <<tokens.Equals, tokens.QuestionMark, tokens.Zero>>
                  \o ExpectedParameters(value.params, 1)
    ELSE key \o <<tokens.Equals>> \o BareMarshalSFV(value.bare)
             \o ExpectedParameters(value.params, 1)

RECURSIVE ExpectedMembers(_, _)
ExpectedMembers(dict, i) ==
    IF i > Len(dict.keys) THEN <<>>
    ELSE (IF i > 1 THEN <<tokens.Comma, 32>> ELSE <<>>)
             \o ExpectedMember(dict.keys[i], dict.values[dict.keys[i]])
             \o ExpectedMembers(dict, i + 1)

\* "=?1" occurs in s
HasEqualsTrue(s) ==
    \E i \in 1..(Len(s) - 2) :
        s[i] = tokens.Equals /\ s[i + 1] = tokens.QuestionMark /\ s[i + 2] = tokens.One

\* C10: the encoder writes a parameter or a Dictionary member whose value
\* is Boolean true as the key alone (followed, for an Item in a Dictionary,
\* by the Item's parameters) and never as key=?1, a Boolean false as
\* key=?0, and every other value as key=encoding
BareKeyOptimization ==
    /\ pc = "paramsMarshaled" =>
           (~out.err /\ out.bytes = ExpectedParameters(p, 1) /\ ~HasEqualsTrue(out.bytes))
    /\ pc = "dictMarshaled" =>
           (~out.err /\ out.bytes = ExpectedMembers(d, 1) /\ ~HasEqualsTrue(out.bytes))
    /\ pc = "itemMarshaled" =>
           (~out.err /\ out.bytes = BareMarshalSFV(tree.bare) \o ExpectedParameters(tree.params, 1)
                /\ ~HasEqualsTrue(out.bytes))

\* a Dictionary with a Boolean true Item carrying parameters and a Boolean
\* false Item has been marshaled
BareKeyOptimizationWitness ==
    /\ pc = "dictMarshaled"
    /\ d.keys = << <<97>>, <<65>> >>
    /\ d.values[<<97>>].kind = "Item" /\ d.values[<<97>>].bare = True
    /\ Len(d.values[<<97>>].params.keys) = 1
    /\ d.values[<<65>>] = ToItem(False)
    /\ out.bytes = <<97, 59, 32, 120, 61, 49, 44, 32, 65, 61, 63, 48>>

---------------------------------------------------------------------------
(* Sessions on short buffers: every buffer over a small alphabet is handed *)
(* to Parse, ParseDictionary and ParseItem                                 *)

MaxShapeLen == 4

\* a, A, 1, '=', ',', ' ', ';', '(', ')'
ShapeBytes == {97, 65, 49, 61, 44, 32, 59, 40, 41}

InitShape ==
    /\ pc = "input"
    /\ data \in SeqsUpTo(ShapeBytes, MaxShapeLen)
    /\ tree = Nil
    /\ Idle

SpecShape == InitShape /\ [][Next]_vars

\* after leading whitespace the buffer starts with a Key that is followed,
\* after optional whitespace, by "="
StartsWithKeyEquals(buf) ==
    Let(parseKey(buf, stripWhitespace(buf, 0)), LAMBDA key :
    ~key.err /\ current(buf, stripWhitespace(buf, key.idx)) = tokens.Equals)

\* C11: whenever Parse succeeds it returns a Dictionary exactly when the
\* input, after leading whitespace, starts with a Key followed, after
\* optional whitespace, by "=", and a List in every other case; a single
\* item is a List of one Item
ShapeAutoDetection ==
    /\ Parsed =>
           res.value.kind = (IF StartsWithKeyEquals(data) THEN "Dictionary" ELSE "List")
    /\ (Parsed /\ data = <<49, 49>>) =>
           res.value = List(<<ToItem(BareInteger(FALSE, <<49, 49>>))>>)

\* " a=1" has been parsed as a Dictionary
ShapeAutoDetectionWitness ==
    /\ Parsed /\ pc = "parsed"
    /\ data = <<32, 97, 61, 49>>
    /\ res.value.kind = "Dictionary"
    /\ res.value.keys = << <<97>> >>

\* the buffer holds nothing but whitespace
Blank(buf) == stripWhitespace(buf, 0) = Len(buf)

\* C12: every non-empty input ParseDictionary accepts is accepted by Parse,
\* which returns the same Dictionary (keys, order and values), also when the
\* first member is a bare key without "="
ParseHandlesDictionaries ==
    (pc = "parsed" /\ mode = parseModeDictionary /\ ~res.err /\ ~Blank(data)) =>
        Parse(data) = res

CountByte(buf, c) == Cardinality({ i \in 1..Len(buf) : buf[i] = c })

\* a comma is followed by nothing but whitespace up to the end of input
EndsWithComma(buf) ==
    \E i \in 1..Len(buf) :
        buf[i] = tokens.Comma /\ \A j \in (i + 1)..Len(buf) : IsSpace(buf[j])

\* two commas have nothing but whitespace between them
EmptyMember(buf) ==
    \E i, j \in 1..Len(buf) :
        /\ i < j /\ buf[i] = tokens.Comma /\ buf[j] = tokens.Comma
        /\ \A k \in (i + 1)..(j - 1) : IsSpace(buf[k])

\* the number of members of a List or a Dictionary
MemberCount(v) == IF v.kind = "List" THEN Len(v.values) ELSE Len(v.keys)

\* C13: for the List and the Dictionary parser, a buffer that is empty or
\* all whitespace gives an empty container and no error; a trailing comma
\* and an empty member between two commas are errors; and every accepted
\* buffer has one comma between any two members, so members missing their
\* comma are an error too
SeparatorRules ==
    (pc = "parsed" /\ mode # parseModeItem) =>
        /\ Blank(data) =>
               /\ ~res.err
               /\ res.value = (IF mode = parseModeDictionary
                               THEN NewDictionary ELSE List(<<>>))
        /\ EndsWithComma(data) => res.err
        /\ EmptyMember(data) => res.err
        /\ (~res.err /\ ~Blank(data)) =>
               MemberCount(res.value) = CountByte(data, tokens.Comma) + 1

\* "a, " has been refused by Parse: a trailing comma
SeparatorRulesWitness ==
    /\ pc = "parsed" /\ mode = parseModeDefault
    /\ data = <<97, 44, 32>>
    /\ res.err

\* what the structural parser selected by the mode returns, started after
\* the leading whitespace
Structural(buf, m) ==
    IF m = parseModeItem THEN parseItem(buf, stripWhitespace(buf, 0))
    ELSE IF m = parseModeDictionary \/ StartsWithKeyEquals(buf)
         THEN parseDictionary(buf, stripWhitespace(buf, 0))
    ELSE parseList(buf, stripWhitespace(buf, 0))

\* C14: a call to Parse, ParseDictionary or ParseItem succeeds exactly when
\* its structural parser succeeds and nothing but whitespace is left after
\* it, and it then returns what the structural parser built
TrailingBytesFail ==
    (pc = "parsed") =>
        Let(Structural(data, mode), LAMBDA output :
            /\ ~res.err <=>
                   (~output.err /\ \A i \in (output.idx + 1)..Len(data) : IsSpace(data[i]))
            /\ ~res.err => res.value = output.v)

\* ParseItem has refused "1, 1": the item parser stops before the comma
TrailingBytesFailWitness ==
    /\ pc = "parsed" /\ mode = parseModeItem
    /\ data = <<49, 44, 32, 49>>
    /\ ~parseItem(data, 0).err /\ parseItem(data, 0).idx = 1
    /\ res.err

\* the positions of the commas of buf, with the positions before its first
\* and after its last byte
Cuts(buf) == {0, Len(buf) + 1} \cup { i \in 1..Len(buf) : buf[i] = tokens.Comma }

\* the pieces of buf between two neighbouring commas
Pieces(buf) ==
    { SubSeq(buf, i + 1, j - 1) :
        <<i, j>> \in { c \in Cuts(buf) \X Cuts(buf) :
                         c[1] < c[2] /\ \A k \in Cuts(buf) : ~(c[1] < k /\ k < c[2]) } }

\* the mode that parses one member of the value v the way v was parsed
MemberMode(v) ==
    IF v.kind = "Dictionary" THEN parseModeDictionary
    ELSE IF v.kind = "List" THEN parseModeList
    ELSE parseModeItem

\* C15: a parse call returns a value and no error, or an error and a nil
\* value; and a call that returns a value has met no error in any part of
\* the buffer: every member of the buffer is accepted on its own
NoPartialResult ==
    (pc = "parsed") =>
        /\ res.err => res.value = Nil
        /\ ~res.err =>
               /\ res.value # Nil
               /\ mode = parseModeItem => res.value.kind = "Item"
               /\ mode = parseModeDictionary => res.value.kind = "Dictionary"
               /\ ~Blank(data) =>
                      \A piece \in Pieces(data) : ~parse(piece, MemberMode(res.value)).err

\* "1,(1" has been refused by Parse with no value: the second member is an
\* inner list that is not closed
NoPartialResultWitness ==
    /\ pc = "parsed" /\ mode = parseModeDefault
    /\ data = <<49, 44, 40, 49>>
    /\ res.err /\ res.value = Nil

---------------------------------------------------------------------------
(* Sessions with an Encoder: a parsed value, or a host value, is marshaled *)
(* and then encoded to a sink under a parameter spacing                    *)

MaxWritten == 2

\* what the buffers start with
EncodeHeads ==
    { <<34, 109, 34>>,                     \* "m"
      <<34, 97, 59, 32, 98, 34>>,          \* "a; b"
      <<37, 34, 59, 32, 34>>,              \* %"; "
      <<40, 49, 32, 116, 59, 114, 41>>,    \* (1 t;r)
      <<116>>,                              \* t
      <<97, 61, 49>> }                      \* a=1

\* the parameters written after the head
EncodeParams ==
    { <<59, 114>>,             \* ;r
      <<59, 32, 114>>,         \* ; r
      <<59, 107, 61, 49>> }    \* ;k=1

EncodeInputs ==
    { head \o Flatten(ps) : head \in EncodeHeads, ps \in SeqsUpTo(EncodeParams, MaxWritten) }

\* 1000000000000000, the first integer beyond the bound
TooLarge == HostInt("int", FALSE, <<49>> \o [i \in 1..maxIntegerDigits |-> 48])

\* the values handed to Marshal and Encode directly
EncodeHosts ==
    { Nil,
      HostInt("int", TRUE, <<55>>),
      TooLarge,
      HostSlice(<<>>),
      HostSlice(<<HostInt("int", FALSE, <<49>>), HostInt("uint", FALSE, <<50>>)>>),
      HostSlice(<<HostInt("int", FALSE, <<49>>), TooLarge>>),
      HostSlice(<<TooLarge, HostInt("int", FALSE, <<49>>)>>),
      FullItem(BareToken(<<116>>), Parameters(<< <<114>> >>, MapSet(<<>>, <<114>>, True))),
      List(<<ToItem(BareInteger(FALSE, <<49>>)), ToItem(BareString(<<59, 32>>))>>) }

\* the spacings given to SetParameterSpacing: "", " ", "  "
Spacings == { <<>>, <<32>>, <<32, 32>> }

InitEncode ==
    /\ \/ pc = "input" /\ data \in EncodeInputs /\ host = NoHost
       \/ pc = "host" /\ data = <<>> /\ host \in EncodeHosts
    /\ tree = Nil
    /\ mode = parseModeDefault
    /\ res = NoResult /\ out = NoBytes /\ res2 = NoResult /\ out2 = NoBytes
    /\ p = NewParameters /\ d = NewDictionary
    /\ ret = "nil" /\ hist = <<>>
    /\ enc = NewEncoder /\ heap = <<>> /\ refs = <<>>
    /\ pctx = [idx |-> 0]

\* Marshal(v) of a value handed over directly
CallMarshalAny ==
    /\ pc = "host"
    /\ out' = Marshal(host)
    /\ pc' = "anyMarshaled"
    /\ UNCHANGED <<pctx, data, mode, res, res2, out2, tree, host, p, d, ret, hist, enc, heap, refs>>

\* enc.SetParameterSpacing(spacing), once, before the value is encoded
CallSetParameterSpacing ==
    /\ pc \in {"marshaled", "anyMarshaled"}
    /\ hist = <<>>
    /\ \E spacing \in Spacings :
           /\ enc' = SetParameterSpacing(enc, spacing)
           /\ hist' = <<spacing>>
    /\ UNCHANGED <<pctx, pc, data, mode, res, out, res2, out2, tree, host, p, d, ret, heap, refs>>

\* enc.Encode(v) of the value Parse returned
CallEncode ==
    /\ pc = "marshaled"
    /\ enc' = Encode(enc, res.value).enc
    /\ ret' = ErrorOf(Encode(enc, res.value).err)
    /\ pc' = "encoded"
    /\ UNCHANGED <<pctx, data, mode, res, out, res2, out2, tree, host, p, d, hist, heap, refs>>

\* enc.Encode(v) of a value handed over directly
CallEncodeAny ==
    /\ pc = "anyMarshaled"
    /\ enc' = Encode(enc, host).enc
    /\ ret' = ErrorOf(Encode(enc, host).err)
    /\ pc' = "anyEncoded"
    /\ UNCHANGED <<pctx, data, mode, res, out, res2, out2, tree, host, p, d, hist, heap, refs>>

\* the bytes the sink received are parsed the way the buffer was
CallParseEncoded ==
    /\ pc = "encoded"
    /\ ret = "nil"
    /\ res2' = parse(enc.dst, mode)
    /\ pc' = "encodedParsed"
    /\ UNCHANGED <<pctx, data, mode, res, out, out2, tree, host, p, d, ret, hist, enc, heap, refs>>

NextEncode ==
    \/ Next
    \/ CallMarshalAny
    \/ CallSetParameterSpacing
    \/ CallEncode
    \/ CallEncodeAny
    \/ CallParseEncoded

SpecEncode == InitEncode /\ [][NextEncode]_vars

\* v cannot be converted: an integer of more than 15 digits, or a slice that
\* holds one
Unencodable(v) ==
    /\ v # Nil
    /\ \/ v.kind \in {"int", "uint"} /\ Len(v.val) > maxIntegerDigits
       \/ v.kind = "slice"
              /\ \E i \in 1..Len(v.elems) : Len(v.elems[i].val) > maxIntegerDigits

RECURSIVE SpacedParameters(_, _, _)
SpacedParameters(q, spacing, i) ==
    IF i > Len(q.keys) THEN <<>>
    ELSE <<tokens.Semicolon>> \o spacing \o q.keys[i]
             \o (IF q.Values[q.keys[i]] = True THEN <<>>
                 ELSE <<tokens.Equals>> \o BareMarshalSFV(q.Values[q.keys[i]]))
             \o SpacedParameters(q, spacing, i + 1)

\* s ends with t
HasSuffix(s, t) == Len(t) <= Len(s) /\ SubSeq(s, Len(s) - Len(t) + 1, Len(s)) = t

\* the call returned an Item, or a List of one Item or InnerList, that has
\* parameters
HasSubject ==
    /\ ~res.err
    /\ \/ mode = parseModeItem
       \/ res.value.kind = "List" /\ Len(res.value.values) = 1
    /\ ParametersLen(ParsedParameters) > 0

\* C17: for a parsed item or inner list with parameters, Encode writes each
\* parameter as ";", the spacing, and the key: ";key" under the spacing "",
\* "; key" under the default spacing, as Marshal does; and under the spacing
\* " " it writes exactly the bytes Marshal returns
ParameterSpacing ==
    /\ (pc \in {"marshaled", "encoded"} /\ HasSubject) =>
           HasSuffix(out.bytes, SpacedParameters(ParsedParameters, <<32>>, 1))
    /\ (pc = "encoded" /\ HasSubject) =>
           HasSuffix(enc.dst, SpacedParameters(ParsedParameters, enc.parameterSpacing, 1))
    /\ (pc = "encoded" /\ enc.parameterSpacing = <<32>>) => enc.dst = out.bytes

\* "m";r has been parsed as an item and encoded under the spacing "": the
\* sink holds "m";r and Marshal returned "m"; r
ParameterSpacingWitness ==
    /\ pc = "encoded" /\ mode = parseModeItem
    /\ data = <<34, 109, 34, 59, 114>>
    /\ enc.parameterSpacing = <<>>
    /\ enc.dst = <<34, 109, 34, 59, 114>>
    /\ out.bytes = <<34, 109, 34, 59, 32, 114>>

\* C18: whatever the spacing, the bytes Encode writes parse back to the
\* value that was encoded, and the content of a String or DisplayString
\* item is written as Marshal writes it
SpacingKeepsValues ==
    /\ (pc = "encoded" /\ mode = parseModeItem) =>
           SubSeq(enc.dst, 1, Len(BareMarshalSFV(res.value.bare)))
               = BareMarshalSFV(res.value.bare)
    /\ (pc = "encodedParsed") => res2 = res

---------------------------------------------------------------------------
(* Items and Parameters as the objects they are: an Item refers to its     *)
(* *Parameters by address, so two Items can share one Parameters, and a    *)
(* method with a pointer receiver can change it                            *)

MaxOps == 4
MaxObjects == 3

\* the *Parameters an address refers to; address 0 is nil
Deref(h, a) == IF a = 0 THEN NilParameters ELSE h[a]

\* an Item held by the caller: &fullItem{bare: b, params: a}
ItemRef(b, a) == [bare |-> b, params |-> a]

\* an upgrade that hands out the Parameters allocated last instead of a new
\* one
toItemShared(h, b) ==
    IF Len(h) > 0 THEN [heap |-> h, item |-> ItemRef(b, Len(h))]
    ELSE [heap |-> Append(h, NewParameters), item |-> ItemRef(b, Len(h) + 1)]

\* b.ToItem(): NewParameters() allocates, and the new Item refers to it
toItem(h, b) == [heap |-> Append(h, NewParameters), item |-> ItemRef(b, Len(h) + 1)]

\* item.With(params): a new Item with the receiver's bare value
with(item, a) == ItemRef(item.bare, a)

\* the key list Parameters.MarshalSFV leaves behind: when it is empty and
\* the map is not, the keys of the map are appended in the order the range
\* over the map yields them
populateKeys(q, order) ==
    IF ~q.nil /\ Len(q.keys) = 0 /\ Cardinality(DOMAIN q.Values) > 0
    THEN Parameters(SelectSeq(order, LAMBDA k : k \in DOMAIN q.Values), q.Values)
    ELSE q

\* item.MarshalSFV() on the heap h: the bytes, and the heap afterwards
itemMarshalSFV(h, item, order) ==
    Let(Deref(h, item.params), LAMBDA q :
    IF ~q.nil /\ ParametersLen(q) > 0
    THEN [bytes |-> BareMarshalSFV(item.bare)
                        \o ParametersMarshalSFV(populateKeys(q, order)),
          heap |-> [h EXCEPT ![item.params] = populateKeys(q, order)]]
    ELSE [bytes |-> BareMarshalSFV(item.bare), heap |-> h])

HeapBares == { True, BareToken(<<116>>) }

HeapKeys == { <<97>>, <<98>> }

\* the orders in which a range over a map may yield the keys
KeyOrders == { << <<97>>, <<98>> >>, << <<98>>, <<97>> >> }

\* one call of the log: the method, the Item it was called on (0 for none)
\* and the address it was given (0 for none)
Call(op, recv, arg) == [op |-> op, recv |-> recv, arg |-> arg]

InitHeap ==
    /\ pc = "heap"
    /\ data = <<>>
    /\ tree = Nil
    /\ Idle

\* NewParameters()
CallNewParameters ==
    /\ pc = "heap"
    /\ Len(hist) < MaxOps /\ Len(heap) < MaxObjects
    /\ heap' = Append(heap, NewParameters)
    /\ hist' = Append(hist, Call("NewParameters", 0, Len(heap) + 1))
    /\ UNCHANGED <<pctx, pc, data, mode, res, out, res2, out2, tree, host, p, d, ret, enc, refs>>

\* b.ToItem()
CallToItem ==
    /\ pc = "heap"
    /\ Len(hist) < MaxOps /\ Len(heap) < MaxObjects
    /\ \E b \in HeapBares :
           /\ heap' = toItem(heap, b).heap
           /\ refs' = Append(refs, toItem(heap, b).item)
    /\ hist' = Append(hist, Call("ToItem", 0, 0))
    /\ UNCHANGED <<pctx, pc, data, mode, res, out, res2, out2, tree, host, p, d, ret, enc>>

\* refs[i].With(p), p being nil or a Parameters allocated before
CallWith ==
    /\ pc = "heap"
    /\ Len(hist) < MaxOps
    /\ \E i \in 1..Len(refs), a \in 0..Len(heap) :
           /\ refs' = Append(refs, with(refs[i], a))
           /\ hist' = Append(hist, Call("With", i, a))
    /\ UNCHANGED <<pctx, pc, data, mode, res, out, res2, out2, tree, host, p, d, ret, enc, heap>>

\* refs[i].Parameter(name, true)
CallParameter ==
    /\ pc = "heap"
    /\ Len(hist) < MaxOps
    /\ \E i \in 1..Len(refs), name \in HeapKeys :
           \E set \in { ParametersSet(Deref(heap, refs[i].params), name, True) } :
               /\ heap' = IF set.err THEN heap
                          ELSE [heap EXCEPT ![refs[i].params] = set.p]
               /\ ret' = ErrorOf(set.err)
               /\ hist' = Append(hist, Call("Parameter", i, 0))
    /\ UNCHANGED <<pctx, pc, data, mode, res, out, res2, out2, tree, host, p, d, enc, refs>>

\* p.Values[key] = false, written to the exported map directly
CallFillValues ==
    /\ pc = "heap"
    /\ Len(hist) < MaxOps
    /\ \E a \in 1..Len(heap), key \in HeapKeys :
           /\ heap' = [heap EXCEPT ![a] = Parameters(@.keys, MapSet(@.Values, key, False))]
           /\ hist' = Append(hist, Call("Values", 0, a))
    /\ UNCHANGED <<pctx, pc, data, mode, res, out, res2, out2, tree, host, p, d, ret, enc, refs>>

\* refs[i].MarshalSFV()
CallMarshalRef ==
    /\ pc = "heap"
    /\ \E i \in 1..Len(refs), order \in KeyOrders :
           /\ out' = [err |-> FALSE, bytes |-> itemMarshalSFV(heap, refs[i], order).bytes]
           /\ heap' = itemMarshalSFV(heap, refs[i], order).heap
           /\ hist' = Append(hist, Call("MarshalSFV", i, 0))
    /\ pc' = "heapMarshaled"
    /\ UNCHANGED <<pctx, data, mode, res, res2, out2, tree, host, p, d, ret, enc, refs>>

\* the same Item is marshaled a second time
CallMarshalRefAgain ==
    /\ pc = "heapMarshaled"
    /\ \E order \in KeyOrders :
           \E m \in { itemMarshalSFV(heap, refs[hist[Len(hist)].recv], order) } :
               /\ out2' = [err |-> FALSE, bytes |-> m.bytes]
               /\ heap' = m.heap
    /\ pc' = "heapRemarshaled"
    /\ UNCHANGED <<pctx, data, mode, res, out, res2, tree, host, p, d, ret, hist, enc, refs>>

NextHeap ==
    \/ CallNewParameters
    \/ CallToItem
    \/ CallWith
    \/ CallParameter
    \/ CallFillValues
    \/ CallMarshalRef
    \/ CallMarshalRefAgain

SpecHeap == InitHeap /\ [][NextHeap]_vars

\* C19: marshaling an Item leaves every Parameters and every Item as it
\* was, the key lists included, also when a Values map was filled directly;
\* and marshaling the same Item twice returns the same bytes
EncoderIsPure ==
    /\ [][(pc' \in {"heapMarshaled", "heapRemarshaled"} /\ pc' # pc) =>
              (heap' = heap /\ refs' = refs)]_vars
    /\ [](pc = "heapRemarshaled" => out2 = out)

\* the call that led to the state of the primed variables
LastCall == hist'[Len(hist')]

\* the step is a call of the method op
IsCall(op) == Len(hist') = Len(hist) + 1 /\ LastCall.op = op

\* the Items and Parameters there were are what they were
Kept ==
    /\ \A j \in 1..Len(refs) : refs'[j] = refs[j]
    /\ \A a \in 1..Len(heap) : heap'[a] = heap[a]

\* C20: b.ToItem() returns a new Item that refers to a new, empty Parameters
\* no Item held so far refers to, and changes no Item and no Parameters
\* there is; i.With(p) returns a new Item with i's bare value and the
\* parameters p, and changes nothing either, i included; so a parameter set
\* on one upgraded Item never shows on another
UpgradeKeepsReceiver ==
    /\ [][IsCall("ToItem") =>
              /\ Kept
              /\ Len(refs') = Len(refs) + 1
              /\ refs'[Len(refs')].params \notin 0..Len(heap)
              /\ heap'[refs'[Len(refs')].params] = NewParameters]_vars
    /\ [][IsCall("With") =>
              /\ Kept
              /\ heap' = heap
              /\ Len(refs') = Len(refs) + 1
              /\ refs'[Len(refs')] = ItemRef(refs[LastCall.recv].bare, LastCall.arg)]_vars
    /\ [][IsCall("Parameter") =>
              \A j \in 1..Len(refs) :
                  refs[j].params # refs[LastCall.recv].params =>
                      Deref(heap', refs[j].params) = Deref(heap, refs[j].params)]_vars

\* two Items upgraded from the same bare value, a parameter set on the
\* first only, and a third Item made from the first with the second's
\* Parameters
UpgradeKeepsReceiverWitness ==
    /\ pc = "heap" /\ Len(hist) = 4
    /\ hist[1].op = "ToItem" /\ hist[2].op = "ToItem"
    /\ hist[3] = Call("Parameter", 1, 0) /\ hist[4] = Call("With", 1, 2)
    /\ refs[1].bare = refs[2].bare
    /\ refs[1].params = 1 /\ refs[2].params = 2
    /\ heap[1].keys = << <<97>> >>
    /\ heap[2] = NewParameters
    /\ refs[3] = ItemRef(refs[1].bare, 2)

---------------------------------------------------------------------------
(* Sessions on text: a String or a DisplayString constructed directly     *)
(* from any bytes, marshaled, and the bytes parsed                        *)

MaxTextLen == 3

\* the bytes the text values are made of: '"', '\', '%', 'a', LF, DEL, and
\* the two bytes of U+00E9, each of which alone is no valid UTF-8
TextBytes == {34, 92, 37, 97, 10, 127, 195, 169}

TextValues == SeqsUpTo(TextBytes, MaxTextLen)

TextTrees ==
    { List(<<ToItem(BareString(v))>>) : v \in TextValues }
        \cup { List(<<ToItem(BareDisplayString(v))>>) : v \in TextValues }

InitText ==
    /\ pc = "value"
    /\ tree \in TextTrees
    /\ data = <<>>
    /\ Idle

\* Marshal(tree); the bytes are the buffer of the parse calls that follow
CallMarshalTree ==
    /\ pc = "value"
    /\ out' = Marshal(tree)
    /\ ~out'.err
    /\ data' = out'.bytes
    /\ pc' = "input"
    /\ UNCHANGED <<pctx, enc, heap, refs, mode, res, res2, out2, tree, host, p, d, ret, hist>>

NextText == CallMarshalTree \/ Next

SpecText == InitText /\ [][NextText]_vars

\* the value has been marshaled
Written == pc # "value"

\* the session's value is a text of the given type
IsText(t) == tree.kind = "List" /\ tree.values[1].bare.type = t

TextValue == tree.values[1].bare.val

\* bytes 0x20..0x7E only: the values parseString can return
Printable(v) == \A i \in 1..Len(v) : v[i] >= 32 /\ v[i] <= 126

\* a backslash before each '"' and each backslash, every other byte as it is
RECURSIVE BackslashEscaped(_)
BackslashEscaped(v) ==
    IF v = <<>> THEN <<>>
    ELSE (IF v[1] = tokens.DoubleQuote \/ v[1] = tokens.Backslash
          THEN <<tokens.Backslash, v[1]>> ELSE <<v[1]>>) \o BackslashEscaped(Tail(v))

\* C21: for every String value v, constructed directly included, the encoder
\* writes '"', the bytes of v with a backslash before each '"' and each
\* backslash and every other byte unchanged, then '"'; and for every v the
\* String parser can return, parsing the encoder's output returns v
StringEncoding ==
    (Written /\ IsText(StringType)) =>
        /\ data = <<tokens.DoubleQuote>> \o BackslashEscaped(TextValue)
                      \o <<tokens.DoubleQuote>>
        /\ (pc = "parsed" /\ mode = parseModeDefault /\ Printable(TextValue))
               => (~res.err /\ res.value = tree)

\* the bytes parseDisplayString takes as they are
DisplayUnescaped(c) ==
    c >= 32 /\ c <= 126 /\ c # tokens.Percent /\ c # tokens.DoubleQuote

\* the bytes the display string parser accepts unescaped as they are, every
\* other byte as '%' and two lowercase hex digits
RECURSIVE PercentEscaped(_)
PercentEscaped(v) ==
    IF v = <<>> THEN <<>>
    ELSE (IF DisplayUnescaped(v[1]) THEN <<v[1]>> ELSE percentHex(v[1]))
             \o PercentEscaped(Tail(v))

\* C22: for every value v the DisplayString parser can return (any bytes),
\* the encoder writes '%"', each byte of v the parser accepts unescaped as it
\* is and every other byte as '%' and two lowercase hex digits, then '"';
\* and parsing the encoder's output succeeds and returns v
DisplayStringRoundTrip ==
    (Written /\ IsText(DisplayStringType)) =>
        /\ data = <<tokens.Percent, tokens.DoubleQuote>> \o PercentEscaped(TextValue)
                      \o <<tokens.DoubleQuote>>
        /\ (pc = "parsed" /\ mode = parseModeDefault)
               => (~res.err /\ res.value = tree)

---------------------------------------------------------------------------
(* Containers: List.Add, InnerList.Add and Dictionary.Set, and the values *)
(* the parser builds from buffers with parentheses                        *)

\* (l *List) Add(in): the List afterwards and the error
ListAdd(lst, in) ==
    IF in.kind = "Item" THEN [err |-> FALSE, l |-> List(Append(lst.values, in))]
    ELSE IF in.kind = "BareItem"
         THEN [err |-> FALSE, l |-> List(Append(lst.values, ToItem(in.bare)))]
    ELSE IF in.kind = "InnerList"
         THEN [err |-> FALSE, l |-> List(Append(lst.values, in))]
    ELSE [err |-> TRUE, l |-> lst]

\* (il *InnerList) Add(in): the InnerList afterwards and the error
InnerListAdd(lst, in) ==
    IF in.kind = "Item"
    THEN [err |-> FALSE, il |-> InnerList(Append(lst.values, in), lst.params)]
    ELSE IF in.kind = "BareItem"
         THEN [err |-> FALSE,
               il |-> InnerList(Append(lst.values, ToItem(in.bare)), lst.params)]
    ELSE [err |-> TRUE, il |-> lst]

MaxNestFrags == 4

\* the pieces of the buffers: ( ) a space a= ,
NestFrags == { <<40>>, <<41>>, <<97>>, <<32>>, <<97, 61>>, <<44>> }

NestInputs == { Flatten(fs) : fs \in SeqsUpTo(NestFrags, MaxNestFrags) }

\* what is handed to Add and Set: members of every kind, and a string
AddValues == MemberValues \cup { HostString(<<118>>) }

InitNest ==
    /\ pc \in {"input", "list", "innerList", "dict"}
    /\ data \in (IF pc = "input" THEN NestInputs ELSE { <<>> })
    /\ tree = (IF pc = "list" THEN List(<<>>)
               ELSE IF pc = "innerList" THEN InnerList(<<>>, NilParameters)
               ELSE Nil)
    /\ Idle

CallListAdd ==
    /\ pc = "list"
    /\ Len(hist) < MaxCalls
    /\ \E in \in AddValues :
           /\ tree' = ListAdd(tree, in).l
           /\ ret' = ErrorOf(ListAdd(tree, in).err)
           /\ hist' = Append(hist, Assignment(<<>>, in, ListAdd(tree, in).err))
    /\ UNCHANGED <<pctx, enc, heap, refs, pc, data, mode, res, out, res2, out2, host, p, d>>

CallInnerListAdd ==
    /\ pc = "innerList"
    /\ Len(hist) < MaxCalls
    /\ \E in \in AddValues :
           /\ tree' = InnerListAdd(tree, in).il
           /\ ret' = ErrorOf(InnerListAdd(tree, in).err)
           /\ hist' = Append(hist, Assignment(<<>>, in, InnerListAdd(tree, in).err))
    /\ UNCHANGED <<pctx, enc, heap, refs, pc, data, mode, res, out, res2, out2, host, p, d>>

NextNest ==
    \/ CallListAdd
    \/ CallInnerListAdd
    \/ CallDictionarySet
    \/ Next

SpecNest == InitNest /\ [][NextNest]_vars

\* a member of a List or a Dictionary: an Item, or an InnerList of Items
IsItem(v) == v.kind = "Item"

IsFlatInnerList(v) ==
    v.kind = "InnerList" /\ \A i \in 1..Len(v.values) : IsItem(v.values[i])

WellNested(v) ==
    IF v.kind = "List"
    THEN \A i \in 1..Len(v.values) : IsItem(v.values[i]) \/ IsFlatInnerList(v.values[i])
    ELSE IF v.kind = "Dictionary"
    THEN \A k \in DOMAIN v.values : IsItem(v.values[k]) \/ IsFlatInnerList(v.values[k])
    ELSE IF v.kind = "InnerList" THEN IsFlatInnerList(v)
    ELSE TRUE

\* the buffer has a '(' after a '(' with no ')' between them
RECURSIVE ParenInsideFrom(_, _, _)
ParenInsideFrom(buf, i, open) ==
    IF i > Len(buf) THEN FALSE
    ELSE IF buf[i] = tokens.OpenParen
         THEN open \/ ParenInsideFrom(buf, i + 1, TRUE)
    ELSE IF buf[i] = tokens.CloseParen THEN ParenInsideFrom(buf, i + 1, FALSE)
    ELSE ParenInsideFrom(buf, i + 1, open)

\* the containers of the session and the value the parser returned
NestedValues == WellNested(tree) /\ WellNested(d) /\ (~res.err => WellNested(res.value))

\* C23: in every value produced by the parser or by any sequence of List.Add,
\* InnerList.Add and Dictionary.Set calls, each List member and Dictionary
\* value is an Item or an InnerList and each InnerList member is an Item; the
\* parser rejects '(' inside an inner list, InnerList.Add rejects an
\* InnerList, and a rejected Add or Set returns an error and leaves the
\* container unchanged
InnerListsNestNoFurther ==
    /\ []NestedValues
    /\ [](pc = "parsed" /\ ParenInsideFrom(data, 1, FALSE) => res.err)
    /\ [][(pc = "innerList" /\ Len(hist') = Len(hist) + 1
               /\ hist'[Len(hist')].value.kind = "InnerList") => ret' = "error"]_vars
    /\ [][(Len(hist') = Len(hist) + 1 /\ ret' = "error")
               => (hist'[Len(hist')].err /\ tree' = tree /\ d' = d)]_vars

---------------------------------------------------------------------------
(* Sessions on the parse context: a caller inside the package runs the    *)
(* parser's own methods on a buffer, each from where the last one left    *)
(* the cursor                                                             *)

\* the parsing methods of parseContext
Parsers ==
    { "parseKey", "parseDecimal", "parseString", "parseToken", "parseBoolean",
      "parseDate", "parseByteSequence", "parseDisplayString", "parseBareItem",
      "parseParameters", "parseItem", "parseInnerList", "parseList",
      "parseDictionary" }

\* the call pctx.fn() with the cursor at idx0
Run(fn, buf, idx0) ==
    IF fn = "parseKey" THEN parseKey(buf, idx0)
    ELSE IF fn = "parseDecimal" THEN parseDecimal(buf, idx0)
    ELSE IF fn = "parseString" THEN parseString(buf, idx0)
    ELSE IF fn = "parseToken" THEN parseToken(buf, idx0)
    ELSE IF fn = "parseBoolean" THEN parseBoolean(buf, idx0)
    ELSE IF fn = "parseDate" THEN parseDate(buf, idx0)
    ELSE IF fn = "parseByteSequence" THEN parseByteSequence(buf, idx0)
    ELSE IF fn = "parseDisplayString" THEN parseDisplayString(buf, idx0)
    ELSE IF fn = "parseBareItem" THEN parseBareItem(buf, idx0)
    ELSE IF fn = "parseParameters" THEN parseParameters(buf, idx0)
    ELSE IF fn = "parseItem" THEN parseItem(buf, idx0)
    ELSE IF fn = "parseInnerList" THEN parseInnerList(buf, idx0)
    ELSE IF fn = "parseList" THEN parseList(buf, idx0)
    ELSE parseDictionary(buf, idx0)

\* the last call made: the method and the cursor it started from
LexStep(op, from) == [op |-> op, idx |-> from]

InLex == pc \in {"input", "lex"}

\* pctx.advance()
CallAdvance ==
    /\ InLex
    /\ pctx' = [pctx EXCEPT !.idx = advance(data, pctx.idx)]
    /\ hist' = <<LexStep("advance", pctx.idx)>>
    /\ pc' = "lex"
    /\ UNCHANGED <<data, mode, res, out, res2, out2, tree, host, p, d, ret, enc, heap, refs>>

\* pctx.current()
CallCurrent ==
    /\ InLex
    /\ res' = [err |-> FALSE, value |-> [kind |-> "byte", byte |-> current(data, pctx.idx)]]
    /\ hist' = <<LexStep("current", pctx.idx)>>
    /\ pc' = "lex"
    /\ UNCHANGED <<pctx, data, mode, out, res2, out2, tree, host, p, d, ret, enc, heap, refs>>

\* pctx.stripWhitespace()
CallStripWhitespace ==
    /\ InLex
    /\ pctx' = [pctx EXCEPT !.idx = stripWhitespace(data, pctx.idx)]
    /\ hist' = <<LexStep("stripWhitespace", pctx.idx)>>
    /\ pc' = "lex"
    /\ UNCHANGED <<data, mode, res, out, res2, out2, tree, host, p, d, ret, enc, heap, refs>>

\* pctx.isDictionary()
CallIsDictionary ==
    /\ InLex
    /\ res' = [err |-> FALSE,
               value |-> [kind |-> "bool", bool |-> isDictionary(data, pctx.idx)]]
    /\ pctx' = [pctx EXCEPT !.idx = isDictionaryRestore(data, pctx.idx)]
    /\ hist' = <<LexStep("isDictionary", pctx.idx)>>
    /\ pc' = "lex"
    /\ UNCHANGED <<data, mode, out, res2, out2, tree, host, p, d, ret, enc, heap, refs>>

\* one of the parsing methods fns
CallParserIn(fns) ==
    /\ InLex
    /\ \E fn \in fns :
           /\ res' = [err |-> Run(fn, data, pctx.idx).err,
                      value |-> Run(fn, data, pctx.idx).v]
           /\ pctx' = [pctx EXCEPT !.idx = Run(fn, data, pctx.idx).idx]
           /\ hist' = <<LexStep(fn, pctx.idx)>>
    /\ pc' = "lex"
    /\ UNCHANGED <<data, mode, out, res2, out2, tree, host, p, d, ret, enc, heap, refs>>

NextLex ==
    \/ CallAdvance
    \/ CallCurrent
    \/ CallStripWhitespace
    \/ CallIsDictionary
    \/ CallParserIn(Parsers)
    \/ Next

\* the last call was fn
Ran(fn) == pc = "lex" /\ hist[1].op = fn

---------------------------------------------------------------------------
(* Numeric literals with a decimal point *)

MaxIntegerPart == 13
MaxFraction == 4

Sevens(n) == [i \in 1..n |-> 55]

\* what follows the literal: nothing, a second '.', a second '.' and a
\* digit, a letter
LiteralTails == { <<>>, <<46>>, <<46, 55>>, <<97>> }

DecimalLiterals ==
    { sign \o Sevens(n1) \o frac \o tail :
        sign \in { <<>>, <<45>> },
        n1 \in 0..MaxIntegerPart,
        frac \in { <<>> } \cup { <<46>> \o Sevens(n2) : n2 \in 0..MaxFraction },
        tail \in LiteralTails }

InitDecimal ==
    /\ pc = "input"
    /\ data \in DecimalLiterals
    /\ tree = Nil
    /\ Idle

\* the numeric parser, run from any position of the buffer
NextDecimal == CallAdvance \/ CallParserIn({"parseDecimal"})

SpecDecimal == InitDecimal /\ [][NextDecimal]_vars

\* the number of digits of buf from position i (1-based) on
RECURSIVE DigitRun(_, _)
DigitRun(buf, i) ==
    IF i <= Len(buf) /\ isDigit(buf[i]) THEN 1 + DigitRun(buf, i + 1) ELSE 0

\* the literal that starts at cursor from: its sign, the digits before the
\* '.', whether a '.' follows them, and the digits after it
LiteralAt(buf, from) ==
    LET minus == from < Len(buf) /\ buf[from + 1] = tokens.Dash
        first == IF minus THEN from + 2 ELSE from + 1
        n1 == DigitRun(buf, first)
        point == first + n1 <= Len(buf) /\ buf[first + n1] = tokens.Period
        n2 == IF point THEN DigitRun(buf, first + n1 + 1) ELSE 0
    IN [minus |-> minus, n1 |-> n1, point |-> point, n2 |-> n2,
        end |-> first - 1 + n1 + (IF point THEN 1 + n2 ELSE 0)]

\* C24: the numeric parser returns a Decimal exactly when the literal has 1
\* to 12 digits before its '.' and 1 to 3 digits after it; with a '.', more
\* than 12 digits before it, more than 3 after it or none after it is an
\* error; the literal ends before a second '.', which stays unconsumed and
\* is no error of its own; a leading '-' negates the result
DecimalLimits ==
    Ran("parseDecimal") =>
        LET lit == LiteralAt(data, hist[1].idx)
            fits == lit.point /\ lit.n1 >= 1 /\ lit.n1 <= 12 /\ lit.n2 >= 1 /\ lit.n2 <= 3
        IN /\ (~res.err /\ res.value.type = DecimalType) <=> fits
           /\ lit.point => (res.err <=> ~fits)
           /\ fits => /\ pctx.idx = lit.end
                      /\ res.value.neg = lit.minus
                      /\ res.value.val = Sevens(lit.n1) \o <<tokens.Period>>
                                             \o Sevens(lit.n2) \o [i \in 1..(3 - lit.n2) |-> 48]

\* -777777777777.777 followed by .7: the longest Decimal, negated, and the
\* second '.' left for the caller
DecimalLimitsWitness ==
    /\ Ran("parseDecimal") /\ hist[1].idx = 0
    /\ data = <<45>> \o Sevens(12) \o <<46>> \o Sevens(3) \o <<46, 55>>
    /\ ~res.err /\ res.value.type = DecimalType /\ res.value.neg
    /\ pctx.idx = 17 /\ current(data, pctx.idx) = tokens.Period

---------------------------------------------------------------------------
(* Quoted strings handed to the String parser *)

MaxQuotedLen == 4

\* '"', '\', the lowest and the highest byte a String may hold (0x20, 0x7E)
\* and their neighbours outside the range (0x1F, 0x7F)
QuotedBytes == {34, 92, 32, 126, 31, 127}

QuotedInputs == { <<34>> \o s : s \in SeqsUpTo(QuotedBytes, MaxQuotedLen) }

InitQuoted ==
    /\ pc = "input"
    /\ data \in QuotedInputs
    /\ tree = Nil
    /\ Idle

\* the String parser, run from any position of the buffer
NextQuoted == CallAdvance \/ CallParserIn({"parseString"})

SpecQuoted == InitQuoted /\ [][NextQuoted]_vars

\* the number of backslashes that stand in a row just before position i
\* (1-based), none of them before position lo
RECURSIVE BackslashRun(_, _, _)
BackslashRun(buf, lo, i) ==
    IF i - 1 >= lo /\ buf[i - 1] = tokens.Backslash
    THEN 1 + BackslashRun(buf, lo, i - 1) ELSE 0

\* the byte at position i is the second byte of an escape
EscapedAt(buf, lo, i) == BackslashRun(buf, lo, i) % 2 = 1

\* the position of the first unescaped '"' after the opening quote at
\* position open, or 0 when there is none
ClosingQuote(buf, open) ==
    LET Q == { k \in (open + 1)..Len(buf) :
                 buf[k] = tokens.DoubleQuote /\ ~EscapedAt(buf, open + 1, k) }
    IN IF Q = {} THEN 0 ELSE CHOOSE k \in Q : \A j \in Q : k <= j

\* the bytes at positions i..hi without the backslashes that start an escape
RECURSIVE Unescaped(_, _, _, _)
Unescaped(buf, lo, i, hi) ==
    IF i > hi THEN <<>>
    ELSE IF buf[i] = tokens.Backslash /\ ~EscapedAt(buf, lo, i)
         THEN Unescaped(buf, lo, i + 1, hi)
    ELSE <<buf[i]>> \o Unescaped(buf, lo, i + 1, hi)

\* C25: started at a '"', the String parser succeeds exactly when the bytes
\* up to the first unescaped '"' are all in 0x20..0x7E and every backslash
\* that starts an escape is followed by '"' or a backslash; the value is
\* those bytes with each escape replaced by the escaped byte, and the cursor
\* stops just after the closing quote; another escape, a byte outside the
\* range, and the end of the input before the closing quote are errors
StringParser ==
    Ran("parseString") =>
        LET open == hist[1].idx + 1
            close == ClosingQuote(data, open)
            good == /\ close # 0
                    /\ \A i \in (open + 1)..(close - 1) :
                           /\ data[i] >= 32 /\ data[i] <= 126
                           /\ (data[i] = tokens.Backslash /\ ~EscapedAt(data, open + 1, i))
                                  => data[i + 1] \in {tokens.DoubleQuote, tokens.Backslash}
        IN IF current(data, hist[1].idx) # tokens.DoubleQuote THEN res.err
           ELSE /\ ~res.err <=> good
                /\ good => /\ res.value = BareString(Unescaped(data, open + 1, open + 1, close - 1))
                           /\ pctx.idx = close

\* "\"" and one more '"': the value is the one byte '"', and the cursor
\* stands before the last quote
StringParserWitness ==
    /\ Ran("parseString") /\ hist[1].idx = 0
    /\ data = <<34, 92, 34, 34>>
    /\ ~res.err /\ res.value = BareString(<<34>>)
    /\ pctx.idx = 4

---------------------------------------------------------------------------
(* Buffers handed to the inner-list parser *)

MaxInnerFrags == 3

\* the pieces that follow the '(': ) );a a space-a space ;a 1
InnerFrags ==
    { <<41>>, <<41, 59, 97>>, <<97>>, <<32, 97>>, <<32>>, <<59, 97>>, <<49>> }

InnerInputs == { <<40>> \o Flatten(fs) : fs \in SeqsUpTo(InnerFrags, MaxInnerFrags) }

InitInner ==
    /\ pc = "input"
    /\ data \in InnerInputs
    /\ tree = Nil
    /\ Idle

\* the inner-list parser, run from any position of the buffer
NextInner == CallAdvance \/ CallParserIn({"parseInnerList"})

SpecInner == InitInner /\ [][NextInner]_vars

\* the position (1-based) of the first ')' from position i on, or 0
RECURSIVE FirstClose(_, _)
FirstClose(buf, i) ==
    IF i > Len(buf) THEN 0
    ELSE IF buf[i] = tokens.CloseParen THEN i
    ELSE FirstClose(buf, i + 1)

\* the last byte of s that is no whitespace, or 0
RECURSIVE LastNonSpace(_)
LastNonSpace(s) ==
    IF s = <<>> THEN 0
    ELSE IF IsSpace(s[Len(s)]) THEN LastNonSpace(SubSeq(s, 1, Len(s) - 1))
    ELSE s[Len(s)]

\* the bytes at positions i..hi cut at whitespace; whitespace after a ';'
\* belongs to the parameter that follows and cuts nothing
RECURSIVE Members(_, _, _, _)
Members(buf, i, hi, cur) ==
    IF i > hi THEN (IF cur = <<>> THEN <<>> ELSE <<cur>>)
    ELSE IF IsSpace(buf[i]) /\ cur = <<>> THEN Members(buf, i + 1, hi, cur)
    ELSE IF IsSpace(buf[i]) /\ LastNonSpace(cur) # tokens.Semicolon
         THEN <<cur>> \o Members(buf, i + 1, hi, <<>>)
    ELSE Members(buf, i + 1, hi, Append(cur, buf[i]))

\* the piece is one Item and nothing else
WholeItem(s) == ~parseItem(s, 0).err /\ parseItem(s, 0).idx = Len(s)

\* C26: after '(' the inner-list parser accepts zero or more Items separated
\* by whitespace and ended by ')', then parameters, which attach to the
\* inner list itself; an Item directly followed by a byte that is neither
\* whitespace nor ')' is an error, and so is the end of the input before
\* ')', wherever it comes
InnerListParser ==
    Ran("parseInnerList") =>
        LET open == stripWhitespace(data, hist[1].idx) + 1
            close == FirstClose(data, open + 1)
            ms == Members(data, open + 1, close - 1, <<>>)
            params == parseParameters(data, close)
            good == /\ close # 0
                    /\ \A i \in 1..Len(ms) : WholeItem(ms[i])
                    /\ ~params.err
        IN IF current(data, open - 1) # tokens.OpenParen THEN res.err
           ELSE /\ close = 0 => res.err
                /\ ~res.err <=> good
                /\ good =>
                       /\ res.value.kind = "InnerList"
                       /\ res.value.values = [i \in 1..Len(ms) |-> parseItem(ms[i], 0).v]
                       /\ res.value.params =
                              (IF ParametersLen(params.v) > 0 THEN params.v ELSE NilParameters)
                       /\ pctx.idx = params.idx

\* (a a);a: two Items, and the parameter a on the inner list
InnerListParserWitness ==
    /\ Ran("parseInnerList") /\ hist[1].idx = 0
    /\ data = <<40, 97, 32, 97, 41, 59, 97>>
    /\ ~res.err
    /\ Len(res.value.values) = 2
    /\ res.value.values[1] = ToItem(BareToken(<<97>>))
    /\ res.value.params.keys = << <<97>> >>
    /\ pctx.idx = 7

---------------------------------------------------------------------------
(* The cursor: every method of the parse context, run in any order on     *)
(* buffers that hold a piece of every syntax                              *)

MaxCursorFrags == 2

CursorFrags ==
    {
      <<32>>,   \* space
      <<97>>,   \* a
      <<32, 61>>,   \* space =
      <<61, 49>>,   \* =1
      <<49, 46, 53>>,   \* 1.5
      <<44>>,   \* ,
      <<40, 97, 41>>,   \* (a)
      <<59, 120>>,   \* ;x
      <<34, 99, 34>>,   \* "c"
      <<63, 49>>,   \* ?1
      <<58, 97, 81, 61, 61, 58>>,   \* :aQ==:
      <<37, 34, 37, 55, 102, 34>>,   \* %"%7f"
      <<64, 49>>    \* @1
    }

CursorInputs == { Flatten(fs) : fs \in SeqsUpTo(CursorFrags, MaxCursorFrags) }

InitCursor ==
    /\ pc = "input"
    /\ data \in CursorInputs
    /\ tree = Nil
    /\ Idle

SpecCursor == InitCursor /\ [][NextLex]_vars

\* the step is a call of the method op of the parse context
LexCall(op) == pc' = "lex" /\ hist' = <<LexStep(op, pctx.idx)>>

\* C27: for every input and every cursor position, isDictionary returns with
\* the cursor where it was on entry and changes nothing else of the parser's
\* state, so the structural parser chosen afterwards starts where it would
\* have started had the detection not run: Parse returns what the list or
\* the dictionary parser returns from the same position
ShapeDetectionIsLookahead ==
    /\ [][LexCall("isDictionary") =>
              /\ pctx' = pctx
              /\ UNCHANGED <<data, mode, out, res2, out2, tree, host, p, d, ret,
                             enc, heap, refs>>]_vars
    /\ [](pc = "parsed" /\ mode = parseModeDefault =>
              res = parse(data, IF isDictionary(data, stripWhitespace(data, 0))
                                THEN parseModeDictionary ELSE parseModeList))

\* "a =": the lookahead has gone over the key and the space to the '=', and
\* the cursor is back at 0
ShapeDetectionIsLookaheadWitness ==
    /\ Ran("isDictionary") /\ hist[1].idx = 0
    /\ data = <<97, 32, 61>>
    /\ res.value.bool
    /\ isDictionaryBody(data, 0).idx = 2
    /\ pctx.idx = 0

\* C28: in every state 0 <= idx <= size; advance at the end of the input
\* leaves idx where it is, current at the end of the input returns 0 (and
\* reads no byte of the buffer), and no method moves the cursor back: the
\* lookahead of isDictionary goes forward within the buffer and its restore
\* returns to the position on entry, no further
CursorInvariant ==
    /\ [](pctx.idx >= 0 /\ pctx.idx <= Len(data))
    /\ [][pctx'.idx >= pctx.idx]_vars
    /\ [][(LexCall("advance") /\ eof(data, pctx.idx)) => pctx'.idx = pctx.idx]_vars
    /\ []((Ran("current") /\ eof(data, hist[1].idx)) => res.value.byte = 0)
    /\ [](isDictionaryBody(data, pctx.idx).idx >= pctx.idx
              /\ isDictionaryBody(data, pctx.idx).idx <= Len(data)
              /\ isDictionaryRestore(data, pctx.idx) = pctx.idx)

\* advance called with the cursor at the end of a buffer that is not empty
CursorInvariantWitness ==
    /\ Ran("advance")
    /\ Len(data) > 0
    /\ hist[1].idx = Len(data)
    /\ pctx.idx = Len(data)

---------------------------------------------------------------------------
(* The parser loops, one iteration at a time: the test of "for             *)
(* !pctx.eof()" and one pass through the body. An iteration either leaves  *)
(* the loop with what the function then has in hand, or goes round with    *)
(* the cursor and the locals it has reached                                *)

\* the loop is left with r
Done(r) == [done |-> TRUE, idx |-> r.idx, r |-> r]

\* the loop goes round
Cont(idx, acc) == [done |-> FALSE, idx |-> idx, acc |-> acc]

parseKeyIter(buf, idx, sb) ==
    IF eof(buf, idx) THEN Done([sb |-> sb, idx |-> idx])
    ELSE IF ~isKeyChar(current(buf, idx)) THEN Done([sb |-> sb, idx |-> idx])
    ELSE Cont(advance(buf, idx), Append(sb, current(buf, idx)))

parseDecimalIter(buf, idx, acc) ==
    LET done == [err |-> FALSE, sb |-> acc.sb, decimal |-> acc.decimal, idx |-> idx]
        fail == [err |-> TRUE, sb |-> acc.sb, decimal |-> acc.decimal, idx |-> idx]
        c == current(buf, idx)
    IN
    IF eof(buf, idx) THEN Done(done)
    ELSE IF Len(acc.sb) = 0 /\ ~isDigit(c) THEN Done(fail)
    ELSE IF c = tokens.Period
         THEN IF acc.decimal THEN Done(done)
              ELSE IF Len(acc.sb) > 12 THEN Done(fail)
              ELSE Cont(advance(buf, idx), [sb |-> Append(acc.sb, c), decimal |-> TRUE])
    ELSE IF ~isDigit(c) THEN Done(done)
    ELSE Cont(advance(buf, idx), [sb |-> Append(acc.sb, c), decimal |-> acc.decimal])

parseStringIter(buf, idx, sb) ==
    IF eof(buf, idx) THEN Done(Err(idx))
    ELSE LET c == current(buf, idx)
             i1 == advance(buf, idx)
         IN
         IF c = tokens.Backslash
         THEN IF eof(buf, i1) THEN Done(Err(i1))
              ELSE IF current(buf, i1) # tokens.DoubleQuote
                        /\ current(buf, i1) # tokens.Backslash
                   THEN Done(Err(i1))
              ELSE Cont(advance(buf, i1), Append(sb, current(buf, i1)))
         ELSE IF c = tokens.DoubleQuote THEN Done(Ok(BareString(sb), i1))
         ELSE IF c <= 31 \/ c >= 127 THEN Done(Err(i1))
         ELSE Cont(i1, Append(sb, c))

\* an iteration that writes the byte and leaves the cursor on it
parseTokenIterNoAdvance(buf, idx, sb) ==
    IF eof(buf, idx) THEN [done |-> TRUE, idx |-> idx, r |-> [sb |-> sb, idx |-> idx]]
    ELSE IF ~isTokenChar(current(buf, idx))
         THEN [done |-> TRUE, idx |-> idx, r |-> [sb |-> sb, idx |-> idx]]
    ELSE [done |-> FALSE, idx |-> idx, acc |-> Append(sb, current(buf, idx))]

parseTokenIter(buf, idx, sb) ==
    IF eof(buf, idx) THEN Done([sb |-> sb, idx |-> idx])
    ELSE IF ~isTokenChar(current(buf, idx)) THEN Done([sb |-> sb, idx |-> idx])
    ELSE Cont(advance(buf, idx), Append(sb, current(buf, idx)))

parseByteSequenceIter(buf, idx, sb) ==
    IF eof(buf, idx) THEN Done(Err(idx))
    ELSE Let(current(buf, idx), LAMBDA c :
         IF c = tokens.Colon
         THEN Let(base64Decode(sb), LAMBDA dec :
              IF dec.err THEN Done(Err(advance(buf, idx)))
              ELSE Done(Ok(BareByteSequence(dec.bytes), advance(buf, idx))))
         ELSE IF isAlpha(c) \/ isDigit(c) \/ c = tokens.Plus \/ c = tokens.Slash
                    \/ c = tokens.Equals
              THEN Cont(advance(buf, idx), Append(sb, c))
         ELSE Done(Err(idx)))

parseDisplayStringIter(buf, idx, byteArray) ==
    IF eof(buf, idx) THEN Done(Err(idx))
    ELSE LET c == current(buf, idx)
             i1 == advance(buf, idx)
             i2 == advance(buf, i1)
             i3 == advance(buf, i2)
         IN
         IF c <= 31 \/ c >= 127 THEN Done(Err(i1))
         ELSE IF c = tokens.Percent
              THEN IF eof(buf, i1) THEN Done(Err(i1))
                   ELSE IF eof(buf, i2) THEN Done(Err(i2))
                   ELSE IF ~isHexDigit(current(buf, i1)) \/ ~isHexDigit(current(buf, i2))
                        THEN Done(Err(i3))
                   ELSE Cont(i3, Append(byteArray,
                                        hexVal(current(buf, i1)) * 16
                                            + hexVal(current(buf, i2))))
         ELSE IF c = tokens.DoubleQuote THEN Done(Ok(BareDisplayString(byteArray), i1))
         ELSE Cont(i1, Append(byteArray, c))

parseParametersIter(buf, idx, acc) ==
    IF eof(buf, idx) \/ current(buf, idx) # tokens.Semicolon
    THEN IF Len(acc.keys) = 0
         THEN Done(Ok(Parameters(<<>>, <<>>), idx))
         ELSE Done(Ok(Parameters(acc.keys, acc.values), idx))
    ELSE Let(parseKey(buf, stripWhitespace(buf, advance(buf, idx))), LAMBDA paramKey :
         IF paramKey.err THEN Done(Err(paramKey.idx))
         ELSE Let(IF ~eof(buf, paramKey.idx)
                      /\ current(buf, paramKey.idx) = tokens.Equals
                  THEN parseBareItem(buf, advance(buf, paramKey.idx))
                  ELSE Ok(True, paramKey.idx), LAMBDA paramValue :
              IF paramValue.err THEN Done(Err(paramValue.idx))
              ELSE Cont(paramValue.idx,
                        storeParameter(acc.keys, acc.values, paramKey.v, paramValue.v))))

parseInnerListIter(buf, idx0, values) ==
    IF eof(buf, idx0) THEN Done(Err(idx0))
    ELSE Let(stripWhitespace(buf, idx0), LAMBDA idx :
         IF current(buf, idx) = tokens.CloseParen
         THEN Let(parseParameters(buf, advance(buf, idx)), LAMBDA params :
              IF params.err THEN Done(Err(params.idx))
              ELSE Done(Ok(InnerList(values,
                                     IF ParametersLen(params.v) > 0
                                     THEN params.v ELSE NilParameters),
                           params.idx)))
         ELSE Let(parseItem(buf, idx), LAMBDA item :
              IF item.err THEN Done(Err(item.idx))
              ELSE IF ~eof(buf, item.idx)
                       /\ ~IsSpace(current(buf, item.idx))
                       /\ current(buf, item.idx) # tokens.CloseParen
                   THEN Done(Err(item.idx))
              ELSE Cont(item.idx, Append(values, item.v))))

parseListIter(buf, idx, members) ==
    IF eof(buf, idx) THEN Done(Ok(List(members), idx))
    ELSE Let(IF current(buf, idx) = tokens.OpenParen
             THEN parseInnerList(buf, idx)
             ELSE parseItem(buf, idx), LAMBDA item :
         IF item.err THEN Done(Err(item.idx))
         ELSE Let(stripWhitespace(buf, item.idx), LAMBDA i1 :
              IF eof(buf, i1) THEN Done(Ok(List(Append(members, item.v)), i1))
              ELSE IF current(buf, i1) # tokens.Comma THEN Done(Err(i1))
              ELSE Let(stripWhitespace(buf, advance(buf, i1)), LAMBDA i2 :
                   IF eof(buf, i2) THEN Done(Err(i2))
                   ELSE Cont(i2, Append(members, item.v)))))

parseDictionaryIter(buf, idx, dict) ==
    IF eof(buf, idx) THEN Done(Ok(dict, idx))
    ELSE Let(parseKey(buf, idx), LAMBDA key :
         IF key.err THEN Done(Err(key.idx))
         ELSE Let(IF ~eof(buf, key.idx) /\ current(buf, key.idx) = tokens.Equals
                  THEN IF current(buf, advance(buf, key.idx)) = tokens.OpenParen
                       THEN parseInnerList(buf, advance(buf, key.idx))
                       ELSE parseItem(buf, advance(buf, key.idx))
                  ELSE Ok(defaultMember, key.idx), LAMBDA value :
              IF value.err THEN Done(Err(value.idx))
              ELSE Let(parseParameters(buf, value.idx), LAMBDA params :
                   IF params.err THEN Done(Err(params.idx))
                   ELSE Let(dictAppend(dict, key.v, attachParams(value.v, params.v)),
                            LAMBDA dd :
                        Let(stripWhitespace(buf, params.idx), LAMBDA i1 :
                        IF eof(buf, i1) THEN Done(Ok(dd, i1))
                        ELSE IF current(buf, i1) # tokens.Comma THEN Done(Err(i1))
                        ELSE Let(stripWhitespace(buf, advance(buf, i1)), LAMBDA i2 :
                             IF eof(buf, i2) THEN Done(Err(i2))
                             ELSE Cont(i2, dd)))))))

\* the parsing methods that hold a loop
Loops ==
    { "parseKey", "parseDecimal", "parseString", "parseToken", "parseByteSequence",
      "parseDisplayString", "parseParameters", "parseInnerList", "parseList",
      "parseDictionary" }

\* one iteration of the loop of fn
iteration(fn, buf, idx, acc) ==
    IF fn = "parseKey" THEN parseKeyIter(buf, idx, acc)
    ELSE IF fn = "parseDecimal" THEN parseDecimalIter(buf, idx, acc)
    ELSE IF fn = "parseString" THEN parseStringIter(buf, idx, acc)
    ELSE IF fn = "parseToken" THEN parseTokenIter(buf, idx, acc)
    ELSE IF fn = "parseByteSequence" THEN parseByteSequenceIter(buf, idx, acc)
    ELSE IF fn = "parseDisplayString" THEN parseDisplayStringIter(buf, idx, acc)
    ELSE IF fn = "parseParameters" THEN parseParametersIter(buf, idx, acc)
    ELSE IF fn = "parseInnerList" THEN parseInnerListIter(buf, idx, acc)
    ELSE IF fn = "parseList" THEN parseListIter(buf, idx, acc)
    ELSE parseDictionaryIter(buf, idx, acc)

\* the loop of fn run to its end from idx with the locals acc
loopOf(fn, buf, idx, acc) ==
    IF fn = "parseKey" THEN parseKeyLoop(buf, idx, acc)
    ELSE IF fn = "parseDecimal" THEN parseDecimalLoop(buf, idx, acc.sb, acc.decimal)
    ELSE IF fn = "parseString" THEN parseStringLoop(buf, idx, acc)
    ELSE IF fn = "parseToken" THEN parseTokenLoop(buf, idx, acc)
    ELSE IF fn = "parseByteSequence" THEN parseByteSequenceLoop(buf, idx, acc)
    ELSE IF fn = "parseDisplayString" THEN parseDisplayStringLoop(buf, idx, acc)
    ELSE IF fn = "parseParameters" THEN parseParametersLoop(buf, idx, acc.keys, acc.values)
    ELSE IF fn = "parseInnerList" THEN parseInnerListLoop(buf, idx, acc)
    ELSE IF fn = "parseList" THEN parseListLoop(buf, idx, acc)
    ELSE parseDictionaryLoop(buf, idx, acc)

\* the statements of fn before its loop: the function returns there, or
\* reaches the loop with the cursor at idx and its locals as declared
Return == [enter |-> FALSE]
Enter(idx, acc) == [enter |-> TRUE, idx |-> idx, acc |-> acc]

beforeLoop(fn, buf, idx0) ==
    LET c == current(buf, idx0)
        i1 == advance(buf, idx0)
    IN
    IF fn = "parseKey"
    THEN IF eof(buf, idx0) \/ (~isLowerAlpha(c) /\ c # tokens.Asterisk)
         THEN Return ELSE Enter(idx0, <<>>)
    ELSE IF fn = "parseDecimal"
    THEN IF eof(buf, IF c = tokens.Dash THEN i1 ELSE idx0) THEN Return
         ELSE Enter(IF c = tokens.Dash THEN i1 ELSE idx0,
                    [sb |-> <<>>, decimal |-> FALSE])
    ELSE IF fn = "parseString"
    THEN IF c # tokens.DoubleQuote THEN Return ELSE Enter(i1, <<>>)
    ELSE IF fn = "parseToken"
    THEN IF ~isAlpha(c) /\ c # tokens.Asterisk THEN Return ELSE Enter(idx0, <<>>)
    ELSE IF fn = "parseByteSequence"
    THEN IF c # tokens.Colon THEN Return ELSE Enter(i1, <<>>)
    ELSE IF fn = "parseDisplayString"
    THEN IF c # tokens.Percent THEN Return
         ELSE IF eof(buf, i1) \/ current(buf, i1) # tokens.DoubleQuote THEN Return
         ELSE Enter(advance(buf, i1), <<>>)
    ELSE IF fn = "parseParameters"
    THEN Enter(idx0, [keys |-> <<>>, values |-> <<>>])
    ELSE IF fn = "parseInnerList"
    THEN IF current(buf, stripWhitespace(buf, idx0)) # tokens.OpenParen THEN Return
         ELSE Enter(advance(buf, stripWhitespace(buf, idx0)), <<>>)
    ELSE IF fn = "parseList" THEN Enter(idx0, <<>>)
    ELSE Enter(idx0, NewDictionary)

MaxLoopFrags == 2

LoopFrags ==
    {
      <<97>>,   \* a
      <<32>>,   \* space
      <<44, 32, 97>>,   \* , a
      <<61, 49, 46, 53>>,   \* =1.5
      <<59, 120, 59, 121>>,   \* ;x;y
      <<40, 97, 32, 97, 41>>,   \* (a a)
      <<61, 40, 97>>,   \* =(a
      <<34, 99, 92, 34, 34>>,   \* "c\""
      <<34, 99>>,   \* "c
      <<58, 97, 81, 61, 61, 58>>,   \* :aQ==:
      <<37, 34, 37, 55, 102, 34>>    \* %"%7f"
    }

LoopInputs == { Flatten(fs) : fs \in SeqsUpTo(LoopFrags, MaxLoopFrags) }

InitLoops ==
    /\ pc = "input"
    /\ data \in LoopInputs
    /\ tree = Nil
    /\ Idle

\* the call pctx.fn() up to its loop
CallLoop ==
    /\ InLex
    /\ \E fn \in Loops :
       \E b \in { beforeLoop(fn, data, pctx.idx) } :
           /\ hist' = <<LexStep(fn, pctx.idx)>>
           /\ IF b.enter
              THEN /\ pc' = "loop"
                   /\ pctx' = [pctx EXCEPT !.idx = b.idx]
                   /\ ret' = b.acc
                   /\ res' = NoResult
              ELSE /\ pc' = "lex"
                   /\ pctx' = [pctx EXCEPT !.idx = Run(fn, data, pctx.idx).idx]
                   /\ ret' = "nil"
                   /\ res' = [err |-> Run(fn, data, pctx.idx).err,
                              value |-> Run(fn, data, pctx.idx).v]
    /\ UNCHANGED <<data, mode, out, res2, out2, tree, host, p, d, enc, heap, refs>>

\* one iteration of the loop the call is in; when the loop is left the
\* function returns what it makes of the loop's outcome, the cursor staying
\* where the loop left it
StepLoop ==
    /\ pc = "loop"
    /\ \E it \in { iteration(hist[1].op, data, pctx.idx, ret) } :
           /\ pctx' = [pctx EXCEPT !.idx = it.idx]
           /\ IF it.done
              THEN /\ pc' = "lex"
                   /\ ret' = "nil"
                   /\ res' = [err |-> Run(hist[1].op, data, hist[1].idx).err,
                              value |-> Run(hist[1].op, data, hist[1].idx).v]
              ELSE /\ pc' = "loop"
                   /\ ret' = it.acc
                   /\ res' = res
    /\ UNCHANGED <<data, mode, out, res2, out2, tree, host, p, d, hist, enc, heap, refs>>

NextLoops == CallAdvance \/ CallLoop \/ StepLoop

\* a loop is a sequence of statements of one goroutine: once entered, the
\* next iteration is always taken
SpecTermination == InitLoops /\ [][NextLoops]_vars /\ WF_vars(StepLoop)

\* the iteration in hand is one round of the loop as the parsers run it
OneRound ==
    pc = "loop" =>
        \E it \in { iteration(hist[1].op, data, pctx.idx, ret) } :
            loopOf(hist[1].op, data, pctx.idx, ret)
                = IF it.done THEN it.r ELSE loopOf(hist[1].op, data, it.idx, it.acc)

\* C29: every iteration of the ten loops moves the cursor forward by at
\* least one byte or leaves the loop, each iteration is a round of the loop
\* the parser runs, every call that has entered its loop returns, with the
\* cursor where the parser leaves it, and Parse, ParseDictionary and
\* ParseItem, which are these calls between two stripWhitespace, return
Termination ==
    /\ [][pc = "loop" => (pc' = "lex" \/ pctx'.idx > pctx.idx)]_vars
    /\ []OneRound
    /\ [](pc = "loop" => <>(pc = "lex"))
    /\ [](pc = "lex" /\ hist[1].op \in Loops =>
              pctx.idx = Run(hist[1].op, data, hist[1].idx).idx)
    /\ [](\A m \in {parseModeDefault, parseModeDictionary, parseModeItem} :
              parse(data, m).err \in BOOLEAN)

\* the list loop has gone round once on "a, a" and is at the second member
TerminationWitness ==
    /\ pc = "loop"
    /\ hist[1] = LexStep("parseList", 0)
    /\ data = <<97, 44, 32, 97>>
    /\ pctx.idx = 3
    /\ Len(ret) = 1

---------------------------------------------------------------------------
(* Builders: a chain of calls on a builder, then Build. The builder in     *)
(* hand is held in tree, the calls in hist, what Build returned in ret.    *)
(* An error is known by the call that made it: fmt.Errorf allocates a new  *)
(* one each time                                                           *)

\* no error (nil), and the error made by the n-th call of the chain
NoError == <<>>
ErrorAt(n) == <<n>>

InnerListBuilder(innerList, err) ==
    [kind |-> "InnerListBuilder", innerList |-> innerList, err |-> err]

BareItemBuilder(value, err) == [kind |-> "BareItemBuilder", value |-> value, err |-> err]

ItemBuilder(value, err) == [kind |-> "ItemBuilder", value |-> value, err |-> err]

NewInnerListBuilder == InnerListBuilder(InnerList(<<>>, NilParameters), NoError)

\* String() and Boolean(): the value starts as the zero string and False()
StringBuilder == BareItemBuilder(BareString(<<>>), NoError)
BooleanBuilder == BareItemBuilder(False, NoError)

\* (ilb *InnerListBuilder) Add(item); e is the error the call makes if it
\* makes one
InnerListBuilderAdd(ilb, item, e) ==
    IF ilb.err # NoError THEN ilb
    ELSE Let(InnerListAdd(ilb.innerList, item), LAMBDA r :
         IF r.err THEN InnerListBuilder(r.il, e)
         ELSE InnerListBuilder(r.il, NoError))

\* (ilb *InnerListBuilder) Parameter(key, value)
InnerListBuilderParameter(ilb, key, value, e) ==
    IF ilb.err # NoError THEN ilb
    ELSE Let(ParametersSet(IF ilb.innerList.params.nil
                           THEN Parameters(<<>>, <<>>)
                           ELSE ilb.innerList.params, key, value), LAMBDA r :
         InnerListBuilder(InnerList(ilb.innerList.values, r.p),
                          IF r.err THEN e ELSE NoError))

\* (ilb *InnerListBuilder) Build(): (*InnerList, error)
InnerListBuilderBuild(ilb) ==
    IF ilb.err # NoError THEN [value |-> Nil, err |-> ilb.err]
    ELSE [value |-> ilb.innerList, err |-> NoError]

\* (bb *BareItemBuilder) Value(value): every setter of the package stores
\* the value and returns nil
BareItemBuilderValue(bb, value) ==
    IF bb.err # NoError THEN bb
    ELSE BareItemBuilder(value, NoError)

\* (bb *BareItemBuilder) Build(): (B, error); the zero B is a nil pointer,
\* or false where B is BooleanBareItem
BareItemBuilderBuild(bb) ==
    IF bb.err # NoError
    THEN [value |-> IF bb.value.type = BooleanType THEN False ELSE Nil, err |-> bb.err]
    ELSE [value |-> bb.value, err |-> NoError]

\* (bb *BareItemBuilder) ToItem(): the ItemBuilder the chain goes on with
BareItemBuilderToItem(bb) ==
    IF bb.err # NoError THEN ItemBuilder(Nil, bb.err)
    ELSE ItemBuilder(ToItem(bb.value), NoError)

\* (bb *BareItemBuilder) Parameter(k, v): the ItemBuilder the chain goes on
\* with
BareItemBuilderParameter(bb, k, v, e) ==
    IF bb.err # NoError THEN ItemBuilder(Nil, bb.err)
    ELSE Let(ParametersSet(ToItem(bb.value).params, k, v), LAMBDA r :
         ItemBuilder(FullItem(bb.value, r.p), IF r.err THEN e ELSE NoError))

\* a Parameter that does not look at the error the builder holds
ItemBuilderParameterNoLatch(ib, k, v, e) ==
    IF ib.value = Nil THEN ib
    ELSE IF v = Nil THEN [kind |-> "ItemBuilder", value |-> ib.value, err |-> e]
    ELSE [kind |-> "ItemBuilder",
          value |-> [ib.value EXCEPT
                         !.params = [nil |-> FALSE,
                                     keys |-> IF k \in DOMAIN ib.value.params.Values
                                              THEN ib.value.params.keys
                                              ELSE Append(ib.value.params.keys, k),
                                     Values |-> [x \in DOMAIN ib.value.params.Values \cup {k}
                                                    |-> IF x = k THEN v
                                                        ELSE ib.value.params.Values[x]]]],
          err |-> ib.err]

\* (ib *ItemBuilder) Parameter(k, v)
ItemBuilderParameter(ib, k, v, e) ==
    IF ib.err # NoError THEN ib
    ELSE Let(ParametersSet(ib.value.params, k, v), LAMBDA r :
         ItemBuilder(FullItem(ib.value.bare, r.p), IF r.err THEN e ELSE NoError))

\* (ib *ItemBuilder) Build(): (Item, error)
ItemBuilderBuild(ib) ==
    IF ib.err # NoError THEN [value |-> Nil, err |-> ib.err]
    ELSE [value |-> ib.value, err |-> NoError]

MaxBuilderCalls == 3

BuilderKeys == { <<97>>, <<98>> }     \* a, b

BuilderValues == { True, BareInteger(FALSE, <<49>>), Nil }

InitBuilder ==
    /\ pc = "builder"
    /\ data = <<>>
    /\ tree \in { NewInnerListBuilder, StringBuilder, BooleanBuilder }
    /\ Idle

\* the call the chain makes next, as the log keeps it
BuilderCall(op, key, value) == [op |-> op, key |-> key, value |-> value]

\* builder.Add(item)
CallBuilderAdd ==
    /\ pc = "builder" /\ Len(hist) < MaxBuilderCalls
    /\ tree.kind = "InnerListBuilder"
    /\ \E in \in AddValues :
           /\ tree' = InnerListBuilderAdd(tree, in, ErrorAt(Len(hist) + 1))
           /\ hist' = Append(hist, BuilderCall("Add", <<>>, in))
    /\ UNCHANGED <<pctx, pc, data, mode, res, out, res2, out2, host, p, d, ret, enc, heap, refs>>

\* builder.Value(v)
CallBuilderValue ==
    /\ pc = "builder" /\ Len(hist) < MaxBuilderCalls
    /\ tree.kind = "BareItemBuilder"
    /\ \E v \in (IF tree.value.type = BooleanType THEN { True, False }
                 ELSE { BareString(<<>>), BareString(<<118>>) }) :
           /\ tree' = BareItemBuilderValue(tree, v)
           /\ hist' = Append(hist, BuilderCall("Value", <<>>, v))
    /\ UNCHANGED <<pctx, pc, data, mode, res, out, res2, out2, host, p, d, ret, enc, heap, refs>>

\* builder.ToItem()
CallBuilderToItem ==
    /\ pc = "builder" /\ Len(hist) < MaxBuilderCalls
    /\ tree.kind = "BareItemBuilder"
    /\ tree' = BareItemBuilderToItem(tree)
    /\ hist' = Append(hist, BuilderCall("ToItem", <<>>, Nil))
    /\ UNCHANGED <<pctx, pc, data, mode, res, out, res2, out2, host, p, d, ret, enc, heap, refs>>

\* builder.Parameter(k, v)
CallBuilderParameter ==
    /\ pc = "builder" /\ Len(hist) < MaxBuilderCalls
    /\ \E k \in BuilderKeys, v \in BuilderValues :
           /\ tree' = IF tree.kind = "InnerListBuilder"
                      THEN InnerListBuilderParameter(tree, k, v, ErrorAt(Len(hist) + 1))
                      ELSE IF tree.kind = "BareItemBuilder"
                           THEN BareItemBuilderParameter(tree, k, v, ErrorAt(Len(hist) + 1))
                      ELSE ItemBuilderParameter(tree, k, v, ErrorAt(Len(hist) + 1))
           /\ hist' = Append(hist, BuilderCall("Parameter", k, v))
    /\ UNCHANGED <<pctx, pc, data, mode, res, out, res2, out2, host, p, d, ret, enc, heap, refs>>

\* builder.Build()
CallBuild ==
    /\ pc = "builder"
    /\ ret' = IF tree.kind = "InnerListBuilder" THEN InnerListBuilderBuild(tree)
              ELSE IF tree.kind = "BareItemBuilder" THEN BareItemBuilderBuild(tree)
              ELSE ItemBuilderBuild(tree)
    /\ pc' = "built"
    /\ UNCHANGED <<pctx, data, mode, res, out, res2, out2, tree, host, p, d, hist, enc, heap, refs>>

NextBuilder ==
    \/ CallBuilderAdd
    \/ CallBuilderValue
    \/ CallBuilderToItem
    \/ CallBuilderParameter
    \/ CallBuild

SpecBuilder == InitBuilder /\ [][NextBuilder]_vars

\* the call is one that fails whatever the builder holds: an Add of what is
\* neither an Item nor a BareItem, a Parameter with a nil value
Fails(c) ==
    \/ c.op = "Add" /\ c.value.kind \notin {"Item", "BareItem"}
    \/ c.op = "Parameter" /\ c.value = Nil

\* the error of the first call of the log that fails
FirstFailure ==
    IF \E i \in 1..Len(hist) : Fails(hist[i])
    THEN ErrorAt(CHOOSE i \in 1..Len(hist) :
                     Fails(hist[i]) /\ \A j \in 1..(i - 1) : ~Fails(hist[j]))
    ELSE NoError

\* what the builder holds: the InnerList, the BareItem or the Item
Contents(b) == IF b.kind = "InnerListBuilder" THEN b.innerList ELSE b.value

\* C30: a builder that holds an error is left as it is by every later Add,
\* Value and Parameter; the error it holds is the one of the first call
\* that failed; Build returns that error with nil (false for a Boolean
\* builder), and a builder that holds no error returns what it holds and no
\* error
BuilderErrorLatching ==
    /\ [][(pc = "builder" /\ tree.err # NoError /\ pc' = "builder") => tree' = tree]_vars
    /\ [](pc \in {"builder", "built"} => tree.err = FirstFailure)
    /\ [](pc = "built" =>
              IF FirstFailure # NoError
              THEN /\ ret.err = FirstFailure
                   /\ ret.value = (IF tree.kind = "BareItemBuilder"
                                       /\ tree.value.type = BooleanType
                                   THEN False ELSE Nil)
              ELSE /\ ret.err = NoError
                   /\ ret.value = Contents(tree))

\* a is set, the second Parameter has a nil value, the third would set b:
\* Build returns the error of the second call, and the Item holds a alone
BuilderErrorLatchingWitness ==
    /\ pc = "built"
    /\ tree.kind = "ItemBuilder"
    /\ Len(hist) = 3
    /\ hist[1] = BuilderCall("Parameter", <<97>>, True)
    /\ hist[2] = BuilderCall("Parameter", <<98>>, Nil)
    /\ hist[3] = BuilderCall("Parameter", <<98>>, True)
    /\ ret = [value |-> Nil, err |-> ErrorAt(2)]
    /\ tree.value.params.keys = << <<97>> >>

====
